---- MODULE Spec2Model ----
(***************************************************************************)
(* Ledger engine of the Telegram billing bot (services/billingService.ts)  *)
(* running against PostgreSQL through Drizzle (db/schema.ts).              *)
(*                                                                         *)
(* A Decimal (decimal.js) is modelled exactly as a pair [m, s]: the number *)
(* m * 10^-s, kept normalised (no trailing zero in the fraction).  A       *)
(* numeric(_, 6) column value and a toFixed(6) string are modelled as the  *)
(* integer count of 10^-6 units, which is what the six-digit string spells.*)
(* decimal.js rounds results to 20 significant digits; the magnitudes of   *)
(* this model stay far below that, so plus/minus/mul are exact here.       *)
(*                                                                         *)
(* A call is one db.transaction: BEGIN, the statements the callback awaits *)
(* one after the other, COMMIT; each awaited statement is one action.  The *)
(* store is PostgreSQL at its default READ COMMITTED level: a statement    *)
(* sees the committed rows and its own transaction's writes, an INSERT ... *)
(* ON CONFLICT or UPDATE waits for the open transaction that wrote the row,*)
(* created_at defaults to now(), the start time of the transaction, and    *)
(* the serial sequences are not rolled back.  The columns created_at and   *)
(* updated_at of group_balances and the actorId of the notes are left out: *)
(* no operation reads them.  A thrown Error is named by what it reports:   *)
(* InsufficientPending is addReserve's Error, StoreUnavailable a statement *)
(* the store rejects.                                                      *)
(***************************************************************************)
EXTENDS Integers, Sequences, FiniteSets, TLC

\* ------------------------------------------------------------------------
\* Bounds of the model
\* ------------------------------------------------------------------------
\* number of transactions the callers may begin in the concurrent system
MaxOps == 2
\* number of operations of the single sequential caller
MaxSeqOps == 3

\* ------------------------------------------------------------------------
\* Program constants
\* ------------------------------------------------------------------------
SCALE == 6

\* ------------------------------------------------------------------------
\* Decimal arithmetic (decimal.js as used by billingService.ts)
\* ------------------------------------------------------------------------
RECURSIVE Pow10(_)
Pow10(n) == IF n = 0 THEN 1 ELSE 10 * Pow10(n - 1)

RECURSIVE Norm(_)
Norm(d) ==
  IF d.m = 0 THEN [m |-> 0, s |-> 0]
  ELSE IF d.s > 0 /\ d.m % 10 = 0
       THEN Norm([m |-> d.m \div 10, s |-> d.s - 1])
       ELSE d

Dec(m, s) == Norm([m |-> m, s |-> s])

Zero == Dec(0, 0)

MaxS(a, b) == IF a.s >= b.s THEN a.s ELSE b.s

\* mantissa of d when written with s fractional digits (s >= d.s)
Lift(d, s) == d.m * Pow10(s - d.s)

plus(a, b) == Dec(Lift(a, MaxS(a, b)) + Lift(b, MaxS(a, b)), MaxS(a, b))

minus(a, b) == Dec(Lift(a, MaxS(a, b)) - Lift(b, MaxS(a, b)), MaxS(a, b))

mul(a, b) == Dec(a.m * b.m, a.s + b.s)

neg(a) == [m |-> -a.m, s |-> a.s]

gte(a, b) == Lift(a, MaxS(a, b)) >= Lift(b, MaxS(a, b))

gt(a, b) == Lift(a, MaxS(a, b)) > Lift(b, MaxS(a, b))

lt(a, b) == Lift(a, MaxS(a, b)) < Lift(b, MaxS(a, b))

eq(a, b) == Lift(a, MaxS(a, b)) = Lift(b, MaxS(a, b))

DecMin(a, b) == IF lt(b, a) THEN b ELSE a

DecMax(a, b) == IF gt(b, a) THEN b ELSE a

\* |m| * 10^-s rounded half up to an integer count of 10^-dp
RoundHalfUp(m, s, dp) ==
  IF s <= dp THEN m * Pow10(dp - s)
  ELSE LET unit == Pow10(s - dp)
           q == m \div unit
           r == m % unit
       IN IF 2 * r >= unit THEN q + 1 ELSE q

\* value.toFixed(dp): ROUND_HALF_UP, i.e. nearest, ties away from zero
toFixed(d, dp) ==
  IF d.m >= 0 THEN RoundHalfUp(d.m, d.s, dp) ELSE -RoundHalfUp(-d.m, d.s, dp)

toDbString(value) == toFixed(value, SCALE)

\* new Decimal(str) of a six-digit numeric string
toDecimal(str) == Dec(str, SCALE)

calculateTotals(amount, serviceRate) ==
  [serviceFee |-> mul(amount, serviceRate),
   total |-> plus(amount, mul(amount, serviceRate))]

\* ------------------------------------------------------------------------
\* Inputs
\* ------------------------------------------------------------------------
Callers == {"c1", "c2"}

SeqCallers == {"c1"}

Chats == {"g1", "g2"}

NoTitle == "null"

Titles == {NoTitle, "t1"}

MoneyKinds ==
  {"addPendingAmount", "reducePendingAmount", "addReserve", "deductReserve"}

\* amounts and rates the concurrent callers submit
Amounts == {Dec(1, 0), Dec(-1, 0)}

Rates == {Dec(5, 1)}

\* amounts and rates the sequential caller submits
SeqAmounts == {Dec(1, 0), Dec(-1, 0), Dec(2, 0), Dec(1, 6)}

SeqRates == {Zero, Dec(5, 1), Dec(4, 7)}

Context(kind, chatId, chatTitle, amount, serviceRate) ==
  [kind |-> kind, chatId |-> chatId, chatTitle |-> chatTitle,
   amount |-> amount, serviceRate |-> serviceRate]

ContextsOf(chats, titles, amounts, rates) ==
  {Context(k, g, t, a, Zero) : k \in MoneyKinds, g \in chats, t \in titles,
                                a \in amounts}
  \cup {Context("updateGroupServiceRate", g, t, Zero, r) :
          g \in chats, t \in titles, r \in rates}
  \cup {Context("ensureGroupInitialized", g, t, Zero, Zero) :
          g \in chats, t \in titles}

\* the concurrent callers work on chat g1 with every operation, and on chat
\* g2 with a spend and a payment
OtherChatContexts ==
  {Context(k, "g2", NoTitle, Dec(1, 0), Zero) :
     k \in {"addPendingAmount", "reducePendingAmount"}}

Contexts == ContextsOf({"g1"}, {NoTitle}, Amounts, Rates) \cup OtherChatContexts

SeqContexts == ContextsOf({"g1"}, Titles, SeqAmounts, SeqRates)

\* ------------------------------------------------------------------------
\* State
\* ------------------------------------------------------------------------
VARIABLES
  groupBalances,  \* committed rows of table group_balances
  transactions,   \* committed rows of table transactions
  groupIdSeq,     \* serial sequence of group_balances.id
  txIdSeq,        \* serial sequence of transactions.id
  clock,          \* the database clock: now() of the next transaction
  pc,             \* per caller: the statement it executes next
  ctx,            \* per caller: the OperationContext of its call
  txNow,          \* per caller: now() of its transaction (its start time)
  txGroup,        \* per caller: the group_balances row its transaction wrote
  txRecs,         \* per caller: the transactions rows its transaction inserted
  group,          \* per caller: the GroupState object of its callback
  calc,           \* per caller: the values computed for the OperationResult
  result,         \* per caller: what its last call returned or threw
  moneyCommits,   \* history: committed money operations per chat
  applied,        \* history: record id -> the operation that wrote it
  lastRateCall,   \* history: per chat, the rate update that committed last
  http,           \* the HTTP server's request for a history, and its answer
  parsed,         \* the bot's parser: the last text and the command it gave
  update,         \* per handler: the chat update it handles, and its outcome
  updateSeq,      \* the update_id of the next update the bot receives
  groupOperators, \* rows of table group_operators
  operatorIdSeq   \* serial sequence of group_operators.id

\* the engine and its store
engineVars == <<groupBalances, transactions, groupIdSeq, txIdSeq, clock, pc,
                ctx, txNow, txGroup, txRecs, group, calc, result, moneyCommits,
                applied, lastRateCall>>

\* the layers around the engine
\* the chat bot
\* the handlers of chat updates and the operator table they use
handlerVars == <<update, updateSeq, groupOperators, operatorIdSeq>>

botVars == <<parsed, handlerVars>>

outerVars == <<http, botVars>>

vars == <<engineVars, outerVars>>

NoRow == [id |-> 0, chatId |-> "", chatTitle |-> NoTitle, reserveBalance |-> 0,
          serviceRate |-> 0, pendingAmount |-> 0]

NoContext == Context("", "", NoTitle, Zero, Zero)

NoGroup == [id |-> 0, reserve |-> Zero, pendingAmount |-> Zero,
            serviceRate |-> Zero]

NoNote == [text |-> "", args |-> <<>>]

NoCalc == [serviceFee |-> Zero, total |-> Zero, rechargePrincipal |-> Zero,
           pendingBefore |-> Zero, reserveDelta |-> Zero,
           previousRate |-> Zero, nextRate |-> Zero,
           type |-> "", note |-> NoNote]

NoResult == [status |-> "none", error |-> "", kind |-> "", chatId |-> "",
             state |-> NoGroup, amount |-> Zero, value |-> NoCalc]

\* no rate update was the last call committed on the chat
NoRateCall == [rate |-> Zero, records |-> -1]

NoParam == [type |-> "", chars |-> <<>>]

\* no request is in progress and none was answered
NoData == [status |-> "none", chatId |-> "", limit |-> 0, group |-> NoRow,
           history |-> <<>>]

\* ctx.from is undefined, or no target user was resolved
NoUser == "undefined"

\* the handler holds no update
NoUpdate ==
  [pc |-> "idle", id |-> 0, kind |-> "", chatId |-> "", from |-> NoUser,
   target |-> NoUser, call |-> NoContext, answer |-> ""]

\* no text was parsed yet
NoParse ==
  [text |-> <<>>, status |-> "none",
   command |-> [kind |-> "null", amount |-> [class |-> "invalid", d |-> Zero]]]

NoRequest == [pc |-> "idle", chatId |-> "", limitParam |-> NoParam,
              limit |-> 0, group |-> NoRow, data |-> NoData]

Init ==
  /\ groupBalances = {}
  /\ transactions = {}
  /\ groupIdSeq = 1
  /\ txIdSeq = 1
  /\ clock = 1
  /\ pc = [p \in Callers |-> "idle"]
  /\ ctx = [p \in Callers |-> NoContext]
  /\ txNow = [p \in Callers |-> 0]
  /\ txGroup = [p \in Callers |-> NoRow]
  /\ txRecs = [p \in Callers |-> {}]
  /\ group = [p \in Callers |-> NoGroup]
  /\ calc = [p \in Callers |-> NoCalc]
  /\ result = [p \in Callers |-> NoResult]
  /\ moneyCommits = [g \in Chats |-> 0]
  /\ applied = <<>>
  /\ lastRateCall = [g \in Chats |-> NoRateCall]
  /\ http = NoRequest
  /\ parsed = NoParse
  /\ update = [h \in Callers |-> NoUpdate]
  /\ updateSeq = 1
  /\ groupOperators = {}
  /\ operatorIdSeq = 1

\* ------------------------------------------------------------------------
\* The callbacks' computations (the synchronous code between two awaits)
\* ------------------------------------------------------------------------
Note(text, args) == [text |-> text, args |-> args]

\* mutant: pendingBefore is read from the group object after it was updated
ComputedPendingAfter(g, fee, total, principal, pendingBefore, delta, type, note) ==
  [throws |-> "", group |-> g, serviceFee |-> fee, total |-> total,
   rechargePrincipal |-> principal, pendingBefore |-> g.pendingAmount,
   reserveDelta |-> delta, previousRate |-> Zero, nextRate |-> Zero,
   type |-> type, note |-> note]

\* what a callback that returns has computed: the state and the result fields
Computed(g, fee, total, principal, pendingBefore, delta, type, note) ==
  [throws |-> "", group |-> g, serviceFee |-> fee, total |-> total,
   rechargePrincipal |-> principal, pendingBefore |-> pendingBefore,
   reserveDelta |-> delta, previousRate |-> Zero, nextRate |-> Zero,
   type |-> type, note |-> note]

\* what a callback that throws leaves behind
Thrown(g, message) ==
  [throws |-> message, group |-> g, serviceFee |-> Zero, total |-> Zero,
   rechargePrincipal |-> Zero, pendingBefore |-> g.pendingAmount,
   reserveDelta |-> Zero, previousRate |-> Zero, nextRate |-> Zero,
   type |-> "", note |-> NoNote]

\* mutant: the reserve covers the principal only, the fee goes to pending
addPendingAmountFeeToPending(g, spendAmount) ==
  LET pendingBefore == g.pendingAmount
      reserveBefore == g.reserve
      t == calculateTotals(spendAmount, g.serviceRate)
  IN IF gte(t.total, Zero)
     THEN LET reserveUsed == DecMin(reserveBefore, spendAmount)
              pendingIncrease == minus(t.total, reserveUsed)
              rechargePrincipal == DecMax(minus(spendAmount, reserveUsed), Zero)
              g2 == [g EXCEPT !.reserve = minus(reserveBefore, reserveUsed),
                              !.pendingAmount = plus(pendingBefore, pendingIncrease)]
          IN Computed(g2, t.serviceFee, t.total, rechargePrincipal,
                      pendingBefore, minus(g2.reserve, reserveBefore),
                      "PENDING_ADD", Note("spend", <<>>))
     ELSE LET credit == neg(t.total)
              pendingReduction == DecMin(pendingBefore, credit)
              reserveIncrease == minus(credit, pendingReduction)
              g2 == [g EXCEPT !.pendingAmount = minus(pendingBefore, pendingReduction),
                              !.reserve = plus(reserveBefore, reserveIncrease)]
          IN Computed(g2, t.serviceFee, t.total, Zero,
                      pendingBefore, minus(g2.reserve, reserveBefore),
                      "PENDING_ADD", Note("adjust", <<>>))

\* mutant: a net credit goes to the reserve, pending is not paid down
addPendingAmountCreditToReserve(g, spendAmount) ==
  LET pendingBefore == g.pendingAmount
      reserveBefore == g.reserve
      t == calculateTotals(spendAmount, g.serviceRate)
  IN IF gte(t.total, Zero)
     THEN LET reserveUsed == DecMin(reserveBefore, t.total)
              pendingIncrease == minus(t.total, reserveUsed)
              rechargePrincipal == DecMax(minus(spendAmount, reserveUsed), Zero)
              g2 == [g EXCEPT !.reserve = minus(reserveBefore, reserveUsed),
                              !.pendingAmount = plus(pendingBefore, pendingIncrease)]
          IN Computed(g2, t.serviceFee, t.total, rechargePrincipal,
                      pendingBefore, minus(g2.reserve, reserveBefore),
                      "PENDING_ADD", Note("spend", <<>>))
     ELSE LET credit == neg(t.total)
              g2 == [g EXCEPT !.reserve = plus(reserveBefore, credit)]
          IN Computed(g2, t.serviceFee, t.total, Zero,
                      pendingBefore, minus(g2.reserve, reserveBefore),
                      "PENDING_ADD", Note("adjust", <<>>))

addPendingAmount(g, spendAmount) ==
  LET pendingBefore == g.pendingAmount
      reserveBefore == g.reserve
      t == calculateTotals(spendAmount, g.serviceRate)
  IN IF gte(t.total, Zero)
     THEN LET reserveUsed == DecMin(reserveBefore, t.total)
              pendingIncrease == minus(t.total, reserveUsed)
              rechargePrincipal == DecMax(minus(spendAmount, reserveUsed), Zero)
              g2 == [g EXCEPT !.reserve = minus(reserveBefore, reserveUsed),
                              !.pendingAmount = plus(pendingBefore, pendingIncrease)]
          IN Computed(g2, t.serviceFee, t.total, rechargePrincipal,
                      pendingBefore, minus(g2.reserve, reserveBefore),
                      "PENDING_ADD",
                      Note("spend",
                           <<toFixed(spendAmount, SCALE), toFixed(reserveUsed, SCALE),
                             toFixed(pendingIncrease, SCALE),
                             toFixed(rechargePrincipal, SCALE),
                             toFixed(t.serviceFee, SCALE), toFixed(t.total, SCALE)>>))
     ELSE LET credit == neg(t.total)
              pendingReduction == DecMin(pendingBefore, credit)
              reserveIncrease == minus(credit, pendingReduction)
              g2 == [g EXCEPT !.pendingAmount = minus(pendingBefore, pendingReduction),
                              !.reserve = plus(reserveBefore, reserveIncrease)]
          IN Computed(g2, t.serviceFee, t.total, Zero,
                      pendingBefore, minus(g2.reserve, reserveBefore),
                      "PENDING_ADD",
                      Note(IF lt(spendAmount, Zero) THEN "adjust" ELSE "spend",
                           <<toFixed(spendAmount, SCALE),
                             toFixed(pendingReduction, SCALE)>>
                           \o (IF gt(reserveIncrease, Zero)
                               THEN <<toFixed(reserveIncrease, SCALE)>> ELSE <<>>)
                           \o <<toFixed(t.serviceFee, SCALE), toFixed(t.total, SCALE)>>))

\* mutant: the whole payment is taken off pending, nothing goes to the reserve
reducePendingAmountUncapped(g, payment) ==
  Computed([g EXCEPT !.pendingAmount = minus(g.pendingAmount, payment)],
           Zero, neg(payment), Zero, g.pendingAmount, Zero, "PENDING_REDUCE",
           Note("recharge", <<>>))

reducePendingAmount(g, payment) ==
  LET pendingBefore == g.pendingAmount
      appliedToPending == DecMin(pendingBefore, payment)
      pendingAfter == minus(pendingBefore, appliedToPending)
      overpay == minus(payment, appliedToPending)
      g1 == [g EXCEPT !.pendingAmount = pendingAfter]
      g2 == IF gt(overpay, Zero)
            THEN [g1 EXCEPT !.reserve = plus(g.reserve, overpay)] ELSE g1
  IN Computed(g2, Zero, neg(payment), Zero, pendingBefore, overpay,
              "PENDING_REDUCE",
              Note("recharge",
                   <<toFixed(payment, SCALE), toFixed(appliedToPending, SCALE),
                     toFixed(overpay, SCALE), toFixed(pendingAfter, SCALE)>>))

\* mutant: the deposit is accepted whatever is pending
addReserveUnchecked(g, amount) ==
  LET t == calculateTotals(amount, g.serviceRate)
  IN Computed([g EXCEPT !.reserve = plus(g.reserve, amount),
                        !.pendingAmount = minus(g.pendingAmount, t.total)],
              t.serviceFee, t.total, Zero, g.pendingAmount, amount, "DEPOSIT",
              Note("deposit",
                   <<toFixed(amount, SCALE), toFixed(t.total, SCALE)>>))

\* mutant: the reserve is credited with the total, fee included
addReserveTotalToReserve(g, amount) ==
  LET t == calculateTotals(amount, g.serviceRate)
      g2 == [g EXCEPT !.reserve = plus(g.reserve, t.total),
                      !.pendingAmount = minus(g.pendingAmount, t.total)]
  IN IF lt(g.pendingAmount, t.total)
     THEN Thrown(g, "InsufficientPending")
     ELSE Computed(g2, t.serviceFee, t.total, Zero, g.pendingAmount, amount,
                   "DEPOSIT", Note("deposit", <<>>))

addReserve(g, amount) ==
  LET pendingBefore == g.pendingAmount
      t == calculateTotals(amount, g.serviceRate)
      g2 == [g EXCEPT !.reserve = plus(g.reserve, amount),
                      !.pendingAmount = minus(g.pendingAmount, t.total)]
  IN IF lt(g.pendingAmount, t.total)
     THEN Thrown(g, "InsufficientPending")
     ELSE Computed(g2, t.serviceFee, t.total, Zero, pendingBefore, amount,
                   "DEPOSIT",
                   Note("deposit",
                        <<toFixed(amount, SCALE), toFixed(t.total, SCALE)>>))

\* mutant: the shortfall is charged to pending with the service fee on it
deductReserveWithFee(g, usage) ==
  LET reserveAfter == minus(g.reserve, usage)
      shortfall == calculateTotals(neg(reserveAfter), g.serviceRate).total
      g2 == IF gte(reserveAfter, Zero)
            THEN [g EXCEPT !.reserve = reserveAfter]
            ELSE [g EXCEPT !.reserve = Zero,
                           !.pendingAmount = plus(g.pendingAmount, shortfall)]
  IN Computed(g2, Zero, usage, Zero, g.pendingAmount,
              minus(g2.reserve, g.reserve), "DEPOSIT", Note("use", <<>>))

\* mutant: the reserve is overdrawn, the shortfall is not moved to pending
deductReserveOverdraws(g, usage) ==
  LET g2 == [g EXCEPT !.reserve = minus(g.reserve, usage)]
  IN Computed(g2, Zero, usage, Zero, g.pendingAmount,
              minus(g2.reserve, g.reserve), "DEPOSIT",
              Note("use", <<toFixed(usage, SCALE)>>))

deductReserve(g, usage) ==
  LET pendingBefore == g.pendingAmount
      reserveBefore == g.reserve
      reserveAfter == minus(reserveBefore, usage)
      rechargePrincipal == IF gte(reserveAfter, Zero) THEN Zero
                           ELSE neg(reserveAfter)
      pendingIncrease == IF gt(rechargePrincipal, Zero) THEN rechargePrincipal
                         ELSE Zero
      g2 == IF gte(reserveAfter, Zero)
            THEN [g EXCEPT !.reserve = reserveAfter]
            ELSE [g EXCEPT !.reserve = Zero,
                           !.pendingAmount = plus(g.pendingAmount, pendingIncrease)]
      reserveUsed == DecMin(reserveBefore, usage)
  IN Computed(g2, Zero, usage, Zero, pendingBefore,
              minus(g2.reserve, reserveBefore), "DEPOSIT",
              Note("use",
                   <<toFixed(usage, SCALE), toFixed(reserveUsed, SCALE),
                     toFixed(pendingIncrease, SCALE),
                     toFixed(rechargePrincipal, SCALE)>>))

\* the money operation of the given kind, as a function of what it loaded
MoneyOp(kind, g, amount) ==
  CASE kind = "addPendingAmount" -> addPendingAmount(g, amount)
    [] kind = "reducePendingAmount" -> reducePendingAmount(g, amount)
    [] kind = "addReserve" -> addReserve(g, amount)
    [] kind = "deductReserve" -> deductReserve(g, amount)

updateGroupServiceRate(g, nextRate) ==
  LET previousRate == g.serviceRate
      c == Computed([g EXCEPT !.serviceRate = nextRate], Zero, Zero, Zero,
                    g.pendingAmount, Zero, "SERVICE_RATE_UPDATE",
                    Note("rate",
                         <<toFixed(previousRate, SCALE), toFixed(nextRate, SCALE)>>))
      same == Computed(g, Zero, Zero, Zero, g.pendingAmount, Zero, "", NoNote)
  IN IF eq(previousRate, nextRate)
     THEN [same EXCEPT !.previousRate = previousRate, !.nextRate = nextRate]
     ELSE [c EXCEPT !.previousRate = previousRate, !.nextRate = nextRate]

\* ------------------------------------------------------------------------
\* The store: PostgreSQL tables behind Drizzle, READ COMMITTED transactions
\* ------------------------------------------------------------------------
\* mutant: the table has no unique index on chat_id, no insert conflicts
ConflictRowsNoIndex(rows, chatId) == {}

\* rows the unique index group_balances_chat_id_idx reports as conflicting
ConflictRows(rows, chatId) == {r \in rows : r.chatId = chatId}

\* mutant: ON CONFLICT DO NOTHING, the existing row keeps its title
UpsertRowKeepsTitle(rows, nextId, chatId, chatTitle) ==
  IF {r \in rows : r.chatId = chatId} = {}
  THEN [id |-> nextId, chatId |-> chatId, chatTitle |-> chatTitle,
        reserveBalance |-> 0, serviceRate |-> 0, pendingAmount |-> 0]
  ELSE CHOOSE r \in rows : r.chatId = chatId

\* INSERT (chatId, chatTitle) with the column defaults, or on conflict
\* UPDATE SET chat_title of the existing row
UpsertRow(rows, nextId, chatId, chatTitle) ==
  IF ConflictRows(rows, chatId) = {}
  THEN [id |-> nextId, chatId |-> chatId, chatTitle |-> chatTitle,
        reserveBalance |-> 0, serviceRate |-> 0, pendingAmount |-> 0]
  ELSE [(CHOOSE r \in ConflictRows(rows, chatId) : TRUE)
          EXCEPT !.chatTitle = chatTitle]

\* mutant: the upsert locks the whole table, not the row of its chat
UpsertWaitsTableLock(p, chatId) ==
  \E q \in Callers \ {p} : txGroup[q] # NoRow

\* mutant: the account is ensured by a plain read that takes no row lock
UpsertNeverWaits(p, chatId) == FALSE

\* another open transaction holds an uncommitted version of the row of
\* chatId: the upsert waits for it to commit or roll back
UpsertWaits(p, chatId) ==
  \E q \in Callers \ {p} : txGroup[q] # NoRow /\ txGroup[q].chatId = chatId

\* mutant: the update waits for every open transaction that holds a row
UpdateWaitsAnyOpen(p, id) ==
  \E q \in Callers \ {p} : txGroup[q] # NoRow

\* another open transaction holds an uncommitted version of row id
UpdateWaits(p, id) ==
  \E q \in Callers \ {p} : txGroup[q] # NoRow /\ txGroup[q].id = id

\* mutant: the statements read through the pool, outside the transaction
VisibleCommittedOnly(p) == groupBalances

\* the group_balances rows a statement of p's transaction sees
Visible(p) ==
  IF txGroup[p] = NoRow THEN groupBalances
  ELSE {r \in groupBalances : r.id # txGroup[p].id} \cup {txGroup[p]}

GroupStateOf(row) ==
  [id |-> row.id, reserve |-> toDecimal(row.reserveBalance),
   pendingAmount |-> toDecimal(row.pendingAmount),
   serviceRate |-> toDecimal(row.serviceRate)]

\* mutant: the update writes the column default into service_rate as well
SaveStateRowDefaultRate(row, state) ==
  [row EXCEPT !.reserveBalance = toDbString(state.reserve),
              !.pendingAmount = toDbString(state.pendingAmount),
              !.serviceRate = 0]

\* saveState: UPDATE group_balances SET reserve_balance, pending_amount
SaveStateRow(row, state) ==
  [row EXCEPT !.reserveBalance = toDbString(state.reserve),
              !.pendingAmount = toDbString(state.pendingAmount)]

\* mutant: the UPDATE also writes the balance columns, with their defaults
ServiceRateRowResetsBalances(row, nextRate, chatTitle) ==
  [row EXCEPT !.serviceRate = toDbString(nextRate), !.chatTitle = chatTitle,
              !.reserveBalance = 0, !.pendingAmount = 0]

\* updateGroupServiceRate: UPDATE group_balances SET service_rate, chat_title
ServiceRateRow(row, nextRate, chatTitle) ==
  [row EXCEPT !.serviceRate = toDbString(nextRate), !.chatTitle = chatTitle]

\* mutant: the pending snapshot is taken from the reserve
TransactionRowWrongSnapshot(id, now, g, type, amount, note) ==
  [id |-> id, groupId |-> g.id, type |-> type, amount |-> toDbString(amount),
   reserveAfter |-> toDbString(g.reserve),
   pendingAmountAfter |-> toDbString(g.reserve),
   note |-> note, createdAt |-> now]

\* recordTransaction: the row inserted into transactions
TransactionRow(id, now, g, type, amount, note) ==
  [id |-> id, groupId |-> g.id, type |-> type, amount |-> toDbString(amount),
   reserveAfter |-> toDbString(g.reserve),
   pendingAmountAfter |-> toDbString(g.pendingAmount),
   note |-> note, createdAt |-> now]

\* mutant: the insert is skipped
recordTransactionSkipped(id, now, g, type, amount, note) == {}

\* recordTransaction: the rows its INSERT adds to the transaction's writes
recordTransaction(id, now, g, type, amount, note) ==
  {TransactionRow(id, now, g, type, amount, note)}

\* mutant: the insert replaces the group's earlier rows
CommittedTransactionsOverwrite(rows, inserted) ==
  {t \in rows : \A u \in inserted : u.groupId # t.groupId} \cup inserted

\* COMMIT: the inserted transactions rows join the table under new ids
CommittedTransactions(rows, inserted) == rows \cup inserted

\* COMMIT: the transaction's row version replaces the committed one
CommittedRows(rows, written) ==
  IF written = NoRow THEN rows
  ELSE {r \in rows : r.id # written.id} \cup {written}

\* mutant: the row is written outside the transaction and survives it
RolledBackRowsLeak(rows, written) == CommittedRows(rows, written)

\* ROLLBACK: what of the transaction's writes reaches the tables
RolledBackRows(rows, written) == rows

OkResult(p) ==
  [status |-> "ok", error |-> "", kind |-> ctx[p].kind,
   chatId |-> ctx[p].chatId, state |-> group[p], amount |-> ctx[p].amount,
   value |-> calc[p]]

ErrResult(p, error) ==
  [status |-> "error", error |-> error, kind |-> ctx[p].kind,
   chatId |-> ctx[p].chatId, state |-> NoGroup, amount |-> ctx[p].amount,
   value |-> NoCalc]

\* the call returns or throws: the callback's objects are gone
Return(p, res) ==
  /\ pc' = [pc EXCEPT ![p] = "idle"]
  /\ ctx' = [ctx EXCEPT ![p] = NoContext]
  /\ txNow' = [txNow EXCEPT ![p] = 0]
  /\ txGroup' = [txGroup EXCEPT ![p] = NoRow]
  /\ txRecs' = [txRecs EXCEPT ![p] = {}]
  /\ group' = [group EXCEPT ![p] = NoGroup]
  /\ calc' = [calc EXCEPT ![p] = NoCalc]
  /\ result' = [result EXCEPT ![p] = res]

\* db.transaction rolls back when the callback throws, and rethrows
Rollback(p, error) ==
  /\ Return(p, ErrResult(p, error))
  /\ groupBalances' = RolledBackRows(groupBalances, txGroup[p])
  /\ UNCHANGED <<transactions, groupIdSeq, txIdSeq, clock, moneyCommits,
                 applied, lastRateCall, outerVars>>

\* ------------------------------------------------------------------------
\* Actions: one per awaited statement of a call
\* ------------------------------------------------------------------------
\* db.transaction: BEGIN; now() of the transaction is fixed here
BeginTransaction(p, c) ==
  /\ pc[p] = "idle"
  /\ pc' = [pc EXCEPT ![p] = "upsert"]
  /\ ctx' = [ctx EXCEPT ![p] = c]
  /\ txNow' = [txNow EXCEPT ![p] = clock]
  /\ clock' = clock + 1
  /\ result' = [result EXCEPT ![p] = NoResult]
  /\ UNCHANGED <<groupBalances, transactions, groupIdSeq, txIdSeq, txGroup,
                 txRecs, group, calc, moneyCommits, applied, lastRateCall>>

\* an operation is called by a caller outside the bot
Begin(p, c) == BeginTransaction(p, c) /\ UNCHANGED outerVars

\* ensureGroup: INSERT ... ON CONFLICT (chat_id) DO UPDATE
Upsert(p) ==
  /\ pc[p] = "upsert"
  /\ ~UpsertWaits(p, ctx[p].chatId)
  /\ txGroup' = [txGroup EXCEPT ![p] =
       UpsertRow(Visible(p), groupIdSeq, ctx[p].chatId, ctx[p].chatTitle)]
  /\ groupIdSeq' = IF ConflictRows(Visible(p), ctx[p].chatId) = {}
                   THEN groupIdSeq + 1 ELSE groupIdSeq
  /\ pc' = [pc EXCEPT ![p] = "find"]
  /\ UNCHANGED <<groupBalances, transactions, txIdSeq, clock, ctx, txNow,
                 txRecs, group, calc, result, moneyCommits,
                 applied, lastRateCall, outerVars>>

\* ensureGroup: findFirst where chat_id = chatId, converted to a GroupState
FindFirst(p) ==
  /\ pc[p] = "find"
  /\ LET found == {r \in Visible(p) : r.chatId = ctx[p].chatId}
     IN IF found = {}
        THEN Rollback(p, "UnableToLoadGroup")
        ELSE /\ \E r \in found : group' = [group EXCEPT ![p] = GroupStateOf(r)]
             /\ pc' = [pc EXCEPT ![p] = "compute"]
             /\ UNCHANGED <<groupBalances, transactions, groupIdSeq, txIdSeq,
                            clock, ctx, txNow, txGroup, txRecs, calc, result,
                            moneyCommits, applied, lastRateCall, outerVars>>

CalcOf(out) ==
  [serviceFee |-> out.serviceFee, total |-> out.total,
   rechargePrincipal |-> out.rechargePrincipal,
   pendingBefore |-> out.pendingBefore, reserveDelta |-> out.reserveDelta,
   previousRate |-> out.previousRate, nextRate |-> out.nextRate,
   type |-> out.type, note |-> out.note]

\* the callback of a money operation from ensureGroup's return to saveState
Compute(p, out) ==
  IF out.throws # ""
  THEN Rollback(p, out.throws)
  ELSE /\ group' = [group EXCEPT ![p] = out.group]
       /\ calc' = [calc EXCEPT ![p] = CalcOf(out)]
       /\ pc' = [pc EXCEPT ![p] = "save"]
       /\ UNCHANGED <<groupBalances, transactions, groupIdSeq, txIdSeq, clock,
                      ctx, txNow, txGroup, txRecs, result, moneyCommits,
                      applied, lastRateCall, outerVars>>

CallAddPendingAmount(p) ==
  /\ pc[p] = "compute"
  /\ ctx[p].kind = "addPendingAmount"
  /\ Compute(p, addPendingAmount(group[p], ctx[p].amount))

CallReducePendingAmount(p) ==
  /\ pc[p] = "compute"
  /\ ctx[p].kind = "reducePendingAmount"
  /\ Compute(p, reducePendingAmount(group[p], ctx[p].amount))

CallAddReserve(p) ==
  /\ pc[p] = "compute"
  /\ ctx[p].kind = "addReserve"
  /\ Compute(p, addReserve(group[p], ctx[p].amount))

CallDeductReserve(p) ==
  /\ pc[p] = "compute"
  /\ ctx[p].kind = "deductReserve"
  /\ Compute(p, deductReserve(group[p], ctx[p].amount))

\* updateGroupServiceRate up to its UPDATE, or to its early return
CallUpdateGroupServiceRate(p) ==
  /\ pc[p] = "compute"
  /\ ctx[p].kind = "updateGroupServiceRate"
  /\ LET out == updateGroupServiceRate(group[p], ctx[p].serviceRate)
     IN /\ group' = [group EXCEPT ![p] = out.group]
        /\ calc' = [calc EXCEPT ![p] = CalcOf(out)]
        /\ pc' = [pc EXCEPT ![p] = IF out.type = "" THEN "commit" ELSE "save"]
  /\ UNCHANGED <<groupBalances, transactions, groupIdSeq, txIdSeq, clock, ctx,
                 txNow, txGroup, txRecs, result, moneyCommits,
                 applied, lastRateCall, outerVars>>

\* ensureGroupInitialized: the callback ends after ensureGroup
CallEnsureGroupInitialized(p) ==
  /\ pc[p] = "compute"
  /\ ctx[p].kind = "ensureGroupInitialized"
  /\ pc' = [pc EXCEPT ![p] = "commit"]
  /\ UNCHANGED <<groupBalances, transactions, groupIdSeq, txIdSeq, clock, ctx,
                 txNow, txGroup, txRecs, group, calc, result, moneyCommits,
                 applied, lastRateCall, outerVars>>

\* the row with the given id as p's UPDATE finds it
Target(p, id) == {r \in Visible(p) : r.id = id}

\* saveState: UPDATE group_balances ... WHERE id = groupId
SaveState(p) ==
  /\ pc[p] = "save"
  /\ ctx[p].kind \in MoneyKinds
  /\ ~UpdateWaits(p, group[p].id)
  /\ \E r \in Target(p, group[p].id) :
       txGroup' = [txGroup EXCEPT ![p] = SaveStateRow(r, group[p])]
  /\ pc' = [pc EXCEPT ![p] = "record"]
  /\ UNCHANGED <<groupBalances, transactions, groupIdSeq, txIdSeq, clock, ctx,
                 txNow, txRecs, group, calc, result, moneyCommits,
                 applied, lastRateCall, outerVars>>

\* updateGroupServiceRate: UPDATE group_balances SET service_rate, chat_title
UpdateServiceRate(p) ==
  /\ pc[p] = "save"
  /\ ctx[p].kind = "updateGroupServiceRate"
  /\ ~UpdateWaits(p, group[p].id)
  /\ \E r \in Target(p, group[p].id) :
       txGroup' = [txGroup EXCEPT ![p] =
                     ServiceRateRow(r, ctx[p].serviceRate, ctx[p].chatTitle)]
  /\ pc' = [pc EXCEPT ![p] = "record"]
  /\ UNCHANGED <<groupBalances, transactions, groupIdSeq, txIdSeq, clock, ctx,
                 txNow, txRecs, group, calc, result, moneyCommits,
                 applied, lastRateCall, outerVars>>

\* recordTransaction: INSERT INTO transactions
RecordTransaction(p) ==
  /\ pc[p] = "record"
  /\ txRecs' = [txRecs EXCEPT ![p] =
       recordTransaction(txIdSeq, txNow[p], group[p], calc[p].type,
                         ctx[p].amount, calc[p].note)]
  /\ txIdSeq' = txIdSeq + 1
  /\ pc' = [pc EXCEPT ![p] = "commit"]
  /\ UNCHANGED <<groupBalances, transactions, groupIdSeq, clock, ctx, txNow,
                 txGroup, group, calc, result, moneyCommits,
                 applied, lastRateCall, outerVars>>

\* what the history remembers of the operation that wrote a record
AppliedOp(p) ==
  [kind |-> ctx[p].kind, amount |-> ctx[p].amount,
   serviceRate |-> group[p].serviceRate]

\* what the history remembers of the call when it commits: for a rate
\* update its rate and the number of records its account had before it
RateCallOf(p) ==
  IF ctx[p].kind = "updateGroupServiceRate"
  THEN [rate |-> ctx[p].serviceRate,
        records |-> Cardinality({t \in transactions : t.groupId = group[p].id})]
  ELSE NoRateCall

\* the callback returned: COMMIT, and the call returns its result
Commit(p) ==
  /\ pc[p] = "commit"
  /\ groupBalances' = CommittedRows(groupBalances, txGroup[p])
  /\ transactions' = CommittedTransactions(transactions, txRecs[p])
  /\ moneyCommits' =
       IF ctx[p].kind \in MoneyKinds
       THEN [moneyCommits EXCEPT ![ctx[p].chatId] = @ + 1] ELSE moneyCommits
  /\ applied' = [i \in DOMAIN applied \cup {r.id : r \in txRecs[p]} |->
                   IF i \in DOMAIN applied THEN applied[i] ELSE AppliedOp(p)]
  /\ lastRateCall' = [lastRateCall EXCEPT ![ctx[p].chatId] = RateCallOf(p)]
  /\ Return(p, OkResult(p))
  /\ UNCHANGED <<groupIdSeq, txIdSeq, clock, outerVars>>

\* a statement of the transaction fails in the store
Fail(p) ==
  /\ pc[p] \in {"upsert", "find", "save", "record", "commit"}
  /\ Rollback(p, "StoreUnavailable")

Step(p) ==
  \/ Upsert(p)
  \/ FindFirst(p)
  \/ CallAddPendingAmount(p)
  \/ CallReducePendingAmount(p)
  \/ CallAddReserve(p)
  \/ CallDeductReserve(p)
  \/ CallUpdateGroupServiceRate(p)
  \/ CallEnsureGroupInitialized(p)
  \/ SaveState(p)
  \/ UpdateServiceRate(p)
  \/ RecordTransaction(p)
  \/ Commit(p)
  \/ Fail(p)

\* callers invoke operations concurrently
Next ==
  \E p \in Callers :
    \/ clock <= MaxOps /\ \E c \in Contexts : Begin(p, c)
    \/ Step(p)

Spec == Init /\ [][Next]_vars

\* one caller invokes operations one after the other
NextSeq ==
  \E p \in SeqCallers :
    \/ clock <= MaxSeqOps /\ \E c \in SeqContexts : Begin(p, c)
    \/ Step(p)

SpecSeq == Init /\ [][NextSeq]_vars

\* the operations of the callers whose termination is checked
LiveContexts ==
  ContextsOf({"g1"}, {NoTitle}, {Dec(1, 0)}, Rates)
  \cup {Context("addPendingAmount", "g2", NoTitle, Dec(1, 0), Zero)}

NextLive ==
  \E p \in Callers :
    \/ clock <= MaxOps /\ \E c \in LiveContexts : Begin(p, c)
    \/ Step(p)

\* callers invoke operations concurrently, and the store and the event loop
\* are fair: a statement that can be executed is executed, unless the store
\* fails it, and a callback that computes reaches its next await
SpecLive ==
  /\ Init /\ [][NextLive]_vars
  /\ \A p \in Callers :
       /\ WF_vars(Upsert(p))
       /\ WF_vars(FindFirst(p))
       /\ WF_vars(SaveState(p))
       /\ WF_vars(UpdateServiceRate(p))
       /\ WF_vars(RecordTransaction(p))
       /\ WF_vars(Commit(p))
       /\ []<>(pc[p] # "compute")

\* amounts a caller of the engine other than the bot's parser may submit
ZeroAmounts == {Zero, Dec(1, 0)}

ZeroContexts == ContextsOf({"g1"}, {NoTitle}, ZeroAmounts, Rates)

\* one caller invokes the engine's operations directly, one after the other
NextZero ==
  \E p \in SeqCallers :
    \/ clock <= MaxSeqOps /\ \E c \in ZeroContexts : Begin(p, c)
    \/ Step(p)

SpecZero == Init /\ [][NextZero]_vars

\* amounts of more fractional digits than the columns keep
FineAmounts == {Dec(5, 7), Dec(1, 0)}

FineContexts == ContextsOf({"g1"}, {NoTitle}, FineAmounts, Rates)

\* one caller submits amounts of seven fractional digits
NextFine ==
  \E p \in SeqCallers :
    \/ clock <= MaxSeqOps /\ \E c \in FineContexts : Begin(p, c)
    \/ Step(p)

SpecFine == Init /\ [][NextFine]_vars

\* amounts the '+' and '-' commands submit: any sign, never zero
CreditAmounts == {Dec(1, 0), Dec(-1, 0), Dec(2, 0), Dec(-2, 0), Dec(5, 7)}

\* amounts the payment and usage commands submit: positive
PositiveAmounts == {Dec(1, 0), Dec(2, 0), Dec(5, 7)}

\* the calls handleCommand and tryHandleServiceRateUpdate make
CommandContexts ==
  {Context("addPendingAmount", "g1", NoTitle, a, Zero) : a \in CreditAmounts}
  \cup {Context(k, "g1", NoTitle, a, Zero) :
          k \in {"reducePendingAmount", "deductReserve"}, a \in PositiveAmounts}
  \cup {Context("updateGroupServiceRate", "g1", NoTitle, Zero, r) :
          r \in SeqRates}

\* the statements of the operations the bot calls
CommandStep(p) ==
  \/ Upsert(p)
  \/ FindFirst(p)
  \/ CallAddPendingAmount(p)
  \/ CallReducePendingAmount(p)
  \/ CallDeductReserve(p)
  \/ CallUpdateGroupServiceRate(p)
  \/ SaveState(p)
  \/ UpdateServiceRate(p)
  \/ RecordTransaction(p)
  \/ Commit(p)
  \/ Fail(p)

\* the engine as the chat commands drive it, one command after the other
NextCommands ==
  \E p \in SeqCallers :
    \/ clock <= MaxSeqOps /\ \E c \in CommandContexts : Begin(p, c)
    \/ CommandStep(p)

SpecCommands == Init /\ [][NextCommands]_vars

\* ------------------------------------------------------------------------
\* The HTTP server: GET /history/:chatId (server/http.ts)
\* ------------------------------------------------------------------------
DefaultLimit == 50

MaxLimit == 500

Digits == <<"0", "1", "2", "3", "4", "5", "6", "7", "8", "9">>

IsDigit(c) == \E i \in 1..Len(Digits) : Digits[i] = c

DigitValue(c) == (CHOOSE i \in 1..Len(Digits) : Digits[i] = c) - 1

RECURSIVE TrimStart(_)
TrimStart(chars) ==
  IF chars # <<>> /\ Head(chars) = " " THEN TrimStart(Tail(chars)) ELSE chars

\* length of the longest prefix of chars made of digits
DigitsPrefix(chars) ==
  CHOOSE k \in 0..Len(chars) :
    /\ \A i \in 1..k : IsDigit(chars[i])
    /\ k = Len(chars) \/ ~IsDigit(chars[k + 1])

RECURSIVE DecimalValue(_)
DecimalValue(ds) ==
  IF ds = <<>> THEN 0
  ELSE 10 * DecimalValue(SubSeq(ds, 1, Len(ds) - 1)) + DigitValue(ds[Len(ds)])

\* Number.parseInt(chars, 10): leading white space, a sign, then the digits
\* up to the first character that is none; NaN when there is no digit
parseInt(chars) ==
  LET t == TrimStart(chars)
      signed == t # <<>> /\ Head(t) \in {"+", "-"}
      body == IF signed THEN Tail(t) ELSE t
      k == DigitsPrefix(body)
      n == DecimalValue(SubSeq(body, 1, k))
  IN IF k = 0 THEN [nan |-> TRUE, n |-> 0]
     ELSE [nan |-> FALSE, n |-> IF signed /\ Head(t) = "-" THEN -n ELSE n]

\* req.query.limit: absent, a string, or an array when it is given twice
QueryParam(type, chars) == [type |-> type, chars |-> chars]

LimitParams ==
  {QueryParam("undefined", <<>>)}
  \cup {QueryParam("string", cs) :
          cs \in {<<"1">>, <<"-", "1">>, <<"x">>, <<"2", "x">>,
                  <<"6", "0", "0">>}}

\* the route's limit and safeLimit
safeLimit(limitParam) ==
  LET limit == IF /\ limitParam.type = "string"
                  /\ ~parseInt(limitParam.chars).nan
                  /\ parseInt(limitParam.chars).n > 0
               THEN parseInt(limitParam.chars).n
               ELSE DefaultLimit
  IN IF limit <= MaxLimit THEN limit ELSE MaxLimit

\* mutant: ORDER BY created_at without desc
RECURSIVE OrderByAsc(_)
OrderByAsc(rows) ==
  IF rows = {} THEN {<<>>}
  ELSE UNION {{<<t>> \o s : s \in OrderByAsc(rows \ {t})} :
                t \in {u \in rows : \A w \in rows : w.createdAt >= u.createdAt}}

\* ORDER BY created_at DESC: the orders the store may return the rows in
RECURSIVE OrderByDesc(_)
OrderByDesc(rows) ==
  IF rows = {} THEN {<<>>}
  ELSE UNION {{<<t>> \o s : s \in OrderByDesc(rows \ {t})} :
                t \in {u \in rows : \A w \in rows : w.createdAt <= u.createdAt}}

\* LIMIT n
Limit(s, n) == SubSeq(s, 1, IF Len(s) <= n THEN Len(s) ELSE n)

\* the route handler up to its call of getHistory
HistoryRequest(chatId, limitParam) ==
  /\ http.pc = "idle"
  /\ http' = [pc |-> "find", chatId |-> chatId, limitParam |-> limitParam,
              limit |-> safeLimit(limitParam), group |-> NoRow, data |-> NoData]
  /\ UNCHANGED <<engineVars, botVars>>

\* getHistory: findFirst where chat_id = chatId; null when there is none
HistoryFindFirst ==
  /\ http.pc = "find"
  /\ LET found == {r \in groupBalances : r.chatId = http.chatId}
     IN IF found = {}
        THEN http' = [http EXCEPT !.pc = "idle",
                        !.data = [NoData EXCEPT !.status = "404",
                                    !.chatId = http.chatId,
                                    !.limit = http.limit]]
        ELSE \E r \in found : http' = [http EXCEPT !.pc = "select", !.group = r]
  /\ UNCHANGED <<engineVars, botVars>>

\* getHistory: select from transactions where group_id = group.id
\* order by created_at desc limit, and the answer
HistorySelect ==
  /\ http.pc = "select"
  /\ \E s \in OrderByDesc({t \in transactions : t.groupId = http.group.id}) :
       http' = [http EXCEPT !.pc = "idle",
                  !.data = [status |-> "ok", chatId |-> http.chatId,
                            limit |-> http.limit, group |-> http.group,
                            history |-> Limit(s, http.limit)]]
  /\ UNCHANGED <<engineVars, botVars>>

\* the operations that run while the history is requested
HistoryContexts ==
  ContextsOf({"g1"}, {NoTitle}, {Dec(1, 0)}, Rates)
  \cup {Context("addPendingAmount", "g2", NoTitle, Dec(1, 0), Zero)}

\* operations of one caller and requests for the history, concurrently
NextHistory ==
  \/ \E p \in SeqCallers :
       \/ clock <= MaxOps /\ \E c \in HistoryContexts : Begin(p, c)
       \/ Step(p)
  \/ \E chatId \in Chats, limitParam \in LimitParams :
       HistoryRequest(chatId, limitParam)
  \/ HistoryFindFirst
  \/ HistorySelect

SpecHistory == Init /\ [][NextHistory]_vars

\* ------------------------------------------------------------------------
\* The chat bot's parser (telegram/bot.ts): texts are sequences of characters
\* ------------------------------------------------------------------------
Whitespace == {" "}

\* the characters U+51FA, U+8D26, U+5E10 and U+5165 of the payment command
\* (U+51FA then U+8D26 or U+5E10) and of the usage command (U+5165 U+8D26)
Chu == "U+51FA"

Zhang == "U+8D26"

ZhangAlt == "U+5E10"

Ru == "U+5165"

\* text.trim()
RECURSIVE Trim(_)
Trim(chars) ==
  IF chars = <<>> THEN chars
  ELSE IF Head(chars) \in Whitespace THEN Trim(Tail(chars))
  ELSE IF chars[Len(chars)] \in Whitespace
       THEN Trim(SubSeq(chars, 1, Len(chars) - 1))
  ELSE chars

\* trimmed.replace(/\s+/g, '')
RemoveWhitespace(chars) == SelectSeq(chars, LAMBDA c : c \notin Whitespace)

StartsWith(chars, prefix) ==
  /\ Len(chars) >= Len(prefix)
  /\ SubSeq(chars, 1, Len(prefix)) = prefix

\* str.slice(n)
Slice(chars, n) == SubSeq(chars, n + 1, Len(chars))

\* a value of decimal.js: a finite number, NaN, or an infinity
Number(d) == [class |-> "number", d |-> d]

NaN == [class |-> "NaN", d |-> Zero]

Infinity(sign) == [class |-> "Infinity", d |-> Dec(sign, 0)]

\* new Decimal(str) threw
Invalid == [class |-> "invalid", d |-> Zero]

\* the digits of a decimal literal: \d+(\.\d*)? or \.\d+
IsDecimalLiteral(chars) ==
  LET dots == {i \in 1..Len(chars) : chars[i] = "."}
  IN /\ chars # <<>>
     /\ Cardinality(dots) <= 1
     /\ \A i \in 1..Len(chars) : i \notin dots => IsDigit(chars[i])
     /\ \E i \in 1..Len(chars) : IsDigit(chars[i])
     /\ \A i \in dots : i = 1 => Len(chars) > 1

\* new Decimal(str) of decimal.js for a string without exponent: a sign,
\* then a decimal literal, 'NaN' or 'Infinity'; anything else throws
NewDecimal(chars) ==
  LET signed == chars # <<>> /\ Head(chars) \in {"+", "-"}
      sign == IF signed /\ Head(chars) = "-" THEN -1 ELSE 1
      body == IF signed THEN Tail(chars) ELSE chars
  IN IF IsDecimalLiteral(body)
     THEN LET dot == IF \E i \in 1..Len(body) : body[i] = "."
                     THEN CHOOSE i \in 1..Len(body) : body[i] = "."
                     ELSE Len(body) + 1
              int == SubSeq(body, 1, dot - 1)
              frac == SubSeq(body, dot + 1, Len(body))
          IN Number(Dec(sign * DecimalValue(int \o frac), Len(frac)))
     ELSE IF body = <<"N", "a", "N">> THEN NaN
     ELSE IF body = <<"I", "n", "f", "i", "n", "i", "t", "y">>
          THEN Infinity(sign)
     ELSE Invalid

\* amount.eq(0): false for NaN and for an infinity
IsZero(v) == v.class = "number" /\ v.d.m = 0

\* amount.lt(0): false for NaN
IsNegative(v) == v.class \in {"number", "Infinity"} /\ v.d.m < 0

\* parseAmount: null for an empty string, for what new Decimal rejects,
\* for a value equal to 0 and, unless allowed, for a value less than 0
parseAmount(raw, allowNegative) ==
  IF raw = <<>> THEN Invalid
  ELSE LET amount == NewDecimal(raw)
       IN IF amount.class = "invalid" THEN Invalid
          ELSE IF IsZero(amount) THEN Invalid
          ELSE IF ~allowNegative /\ IsNegative(amount) THEN Invalid
          ELSE amount

\* parseCommand returned null
NoCommand == [kind |-> "null", amount |-> Invalid]

ParsedCommand(kind, amount) ==
  IF amount.class = "invalid" THEN NoCommand
  ELSE [kind |-> kind, amount |-> amount]

parseCommand(text) ==
  LET trimmed == Trim(text)
      normalized == RemoveWhitespace(trimmed)
  IN IF trimmed = <<>> THEN NoCommand
     ELSE IF StartsWith(normalized, <<"+">>)
          THEN ParsedCommand("PENDING_ADD", parseAmount(Slice(normalized, 1), TRUE))
     ELSE IF StartsWith(normalized, <<"-">>)
          THEN ParsedCommand("PENDING_ADD", parseAmount(normalized, TRUE))
     ELSE IF \/ StartsWith(normalized, <<Chu, Zhang>>)
             \/ StartsWith(normalized, <<Chu, ZhangAlt>>)
          THEN ParsedCommand("REDUCE", parseAmount(Slice(normalized, 2), FALSE))
     ELSE IF StartsWith(normalized, <<Ru, Zhang>>)
          THEN ParsedCommand("DEPOSIT", parseAmount(Slice(normalized, 2), FALSE))
     ELSE NoCommand

\* what precedes the amount in the texts the parser is given
TextPrefixes ==
  {<<"+">>, <<"-">>, <<Chu, Zhang>>, <<Chu, ZhangAlt>>, <<Ru, Zhang>>,
   <<"+", "-">>, <<>>, <<" ", "+">>, <<Chu>>, <<Ru, ZhangAlt>>}

\* the amounts written in the texts the parser is given
TextAmounts ==
  {<<"0">>, <<"5">>, <<"0", ".", "5">>, <<"-", "5">>, <<"-", "0">>,
   <<"0", ".", "0">>, <<"N", "a", "N">>, <<>>, <<"5", "x">>, <<".", "5">>,
   <<"5", ".">>, <<".">>, <<"+", "5">>, <<"5", " ", "0">>,
   <<"I", "n", "f", "i", "n", "i", "t", "y">>,
   <<"0", ".", "0", "0", "0", "0", "0", "0", "5">>}

CommandTexts == {p \o a : p \in TextPrefixes, a \in TextAmounts}

\* bot.on('text'): the text of a message is parsed
ParseCommand(text) ==
  /\ parsed' = [text |-> text, status |-> "parsed",
                command |-> parseCommand(text)]
  /\ UNCHANGED <<engineVars, http, handlerVars>>

NextParse == \E text \in CommandTexts : ParseCommand(text)

SpecParse == Init /\ [][NextParse]_vars

\* ------------------------------------------------------------------------
\* The chat bot's handlers: permissions and operators (telegram/bot.ts,
\* services/operatorService.ts)
\* ------------------------------------------------------------------------
\* the characters U+670D U+52A1 (optional) and U+8D39 U+7387 of the fee-rate
\* command, the full-width colon U+FF1A and the full-width percent U+FF05
Fu == "U+670D"

Wu == "U+52A1"

Fei == "U+8D39"

Lv == "U+7387"

WideColon == "U+FF1A"

WidePercent == "U+FF05"

\* [0-9]+(?:\.[0-9]+)?
IsRateLiteral(chars) ==
  /\ IsDecimalLiteral(chars)
  /\ chars[1] # "."
  /\ chars[Len(chars)] # "."

\* parseServiceRateInput: the text matches (service) fee-rate, a separator,
\* a number and a percent sign; null when it does not, and when a rate
\* without percent sign is greater than 1
parseServiceRateInput(text) ==
  LET trimmed == Trim(text)
      named == IF StartsWith(trimmed, <<Fu, Wu>>) THEN Slice(trimmed, 2)
               ELSE trimmed
      afterName == Slice(named, 2)
      afterSep == IF afterName # <<>> /\ Head(afterName) \in {":", WideColon, "="}
                  THEN Tail(afterName) ELSE afterName
      value == TrimStart(afterSep)
      hasPercent == value # <<>> /\ value[Len(value)] \in {"%", WidePercent}
      literal == IF hasPercent THEN Trim(SubSeq(value, 1, Len(value) - 1))
                 ELSE value
      numeric == NewDecimal(literal).d
      rate == IF hasPercent THEN Dec(numeric.m, numeric.s + 2) ELSE numeric
  IN IF ~StartsWith(named, <<Fei, Lv>>) THEN Invalid
     ELSE IF ~IsRateLiteral(literal) THEN Invalid
     ELSE IF ~hasPercent /\ gt(rate, Dec(1, 0)) THEN Invalid
     ELSE Number(rate)

\* env.botAdminIdSet
Admins == {"a1"}

\* the senders of updates: an admin, another user, and an update without
\* a sender
Senders == {"a1", "u1", NoUser}

isGlobalAdmin(userId) == userId # NoUser /\ userId \in Admins

\* mutant: the operator row is looked up by user only, in any chat
isGroupOperatorOfAnyChat(rows, chatId, userId) ==
  \E r \in rows : r.userId = userId

\* isGroupOperator: findFirst where chat_id = chatId and user_id = userId
isGroupOperator(rows, chatId, userId) ==
  \E r \in rows : r.chatId = chatId /\ r.userId = userId

hasBotPermission(rows, chatId, userId) ==
  IF userId = NoUser THEN FALSE
  ELSE IF isGlobalAdmin(userId) THEN TRUE
  ELSE isGroupOperator(rows, chatId, userId)

\* mutant: the table has no unique index on (chat_id, user_id)
OperatorConflictsNoIndex(rows, chatId, userId) == {}

\* rows the unique index group_operators_chat_user_idx reports as conflicting
OperatorConflicts(rows, chatId, userId) ==
  {r \in rows : r.chatId = chatId /\ r.userId = userId}

\* addGroupOperator: INSERT ... ON CONFLICT DO NOTHING RETURNING id
addGroupOperator(rows, nextId, chatId, userId, assignedBy) ==
  IF OperatorConflicts(rows, chatId, userId) # {} THEN {}
  ELSE {[id |-> nextId, chatId |-> chatId, userId |-> userId,
         assignedBy |-> assignedBy]}

\* removeGroupOperator: DELETE ... WHERE chat_id and user_id RETURNING id
removeGroupOperator(rows, chatId, userId) ==
  {r \in rows : r.chatId = chatId /\ r.userId = userId}

\* the engine call of a parsed command (handleCommand's switch)
CommandCall(command, chatId) ==
  Context(CASE command.kind = "PENDING_ADD" -> "addPendingAmount"
            [] command.kind = "REDUCE" -> "reducePendingAmount"
            [] command.kind = "DEPOSIT" -> "deductReserve",
          chatId, NoTitle, command.amount.d, Zero)

\* the engine call of a fee-rate command
RateCall(rate, chatId) ==
  Context("updateGroupServiceRate", chatId, NoTitle, Zero, rate.d)

Received(kind, chatId, from, target, call) ==
  [pc |-> "received", id |-> updateSeq, kind |-> kind, chatId |-> chatId,
   from |-> from, target |-> target, call |-> call, answer |-> ""]

\* the handler returns, with or without a reply
Done(u, answer) == [u EXCEPT !.pc = "idle", !.answer = answer]

\* bot.on('text') in a group chat: a fee-rate command, else a ledger
\* command, go on to the permission check; any other text is dropped
ReceiveText(h, chatId, from, text) ==
  /\ update[h].pc = "idle"
  /\ LET rate == parseServiceRateInput(text)
         command == parseCommand(text)
     IN update' = [update EXCEPT ![h] =
          IF rate.class # "invalid"
          THEN [Received("rate", chatId, from, NoUser, RateCall(rate, chatId))
                  EXCEPT !.pc = "permission"]
          ELSE IF StartsWith(text, <<"/">>) \/ command = NoCommand
               THEN Done(Received("text", chatId, from, NoUser, NoContext),
                         "ignored")
          ELSE [Received("ledger", chatId, from, NoUser,
                         CommandCall(command, chatId))
                  EXCEPT !.pc = "permission"]]
  /\ updateSeq' = updateSeq + 1
  /\ UNCHANGED <<engineVars, http, parsed, groupOperators, operatorIdSeq>>

\* hasBotPermission: the handler returns without a reply when the sender
\* has no permission and when the operator query fails
HasBotPermission(h) ==
  /\ update[h].pc = "permission"
  /\ \/ update' = [update EXCEPT ![h] =
          IF hasBotPermission(groupOperators, update[h].chatId, update[h].from)
          THEN [@ EXCEPT !.pc = "call"] ELSE Done(@, "denied")]
     \/ /\ update[h].from # NoUser /\ ~isGlobalAdmin(update[h].from)
        /\ update' = [update EXCEPT ![h] = Done(@, "check failed")]
  /\ UNCHANGED <<engineVars, http, parsed, updateSeq, groupOperators,
                 operatorIdSeq>>

\* handleCommand / tryHandleServiceRateUpdate call the engine operation
CallOperation(h) ==
  /\ update[h].pc = "call"
  /\ BeginTransaction(h, update[h].call)
  /\ update' = [update EXCEPT ![h].pc = "engine"]
  /\ UNCHANGED <<http, parsed, updateSeq, groupOperators, operatorIdSeq>>

\* the operation returned or threw: the handler replies
Reply(h) ==
  /\ update[h].pc = "engine"
  /\ pc[h] = "idle"
  /\ update' = [update EXCEPT ![h] = Done(@, result[h].status)]
  /\ UNCHANGED <<engineVars, http, parsed, updateSeq, groupOperators,
                 operatorIdSeq>>

\* processOperatorCommand up to the statement on group_operators; target
\* is the user resolveCommandTarget found, NoUser when it found none
ReceiveOperatorCommand(h, action, chatId, from, target) ==
  /\ update[h].pc = "idle"
  /\ update' = [update EXCEPT ![h] =
       LET u == Received(action, chatId, from, target, NoContext)
       IN IF from = NoUser THEN Done(u, "ignored")
          ELSE IF ~isGlobalAdmin(from) THEN Done(u, "not admin")
          ELSE IF target = NoUser THEN Done(u, "no target")
          ELSE [u EXCEPT !.pc = "operator"]]
  /\ updateSeq' = updateSeq + 1
  /\ UNCHANGED <<engineVars, http, parsed, groupOperators, operatorIdSeq>>

\* processOperatorCommand, action add: the INSERT, or its failure
AddGroupOperator(h) ==
  /\ update[h].pc = "operator"
  /\ update[h].kind = "operator_add"
  /\ \/ LET inserted == addGroupOperator(groupOperators, operatorIdSeq,
                                         update[h].chatId, update[h].target,
                                         update[h].from)
        IN /\ groupOperators' = groupOperators \cup inserted
           /\ operatorIdSeq' = operatorIdSeq + 1
           /\ update' = [update EXCEPT ![h] =
                Done(@, IF inserted # {} THEN "created" ELSE "exists")]
     \/ /\ update' = [update EXCEPT ![h] = Done(@, "failed")]
        /\ UNCHANGED <<groupOperators, operatorIdSeq>>
  /\ UNCHANGED <<engineVars, http, parsed, updateSeq>>

\* processOperatorCommand, action remove: the DELETE, or its failure
RemoveGroupOperator(h) ==
  /\ update[h].pc = "operator"
  /\ update[h].kind = "operator_remove"
  /\ \/ LET deleted == removeGroupOperator(groupOperators, update[h].chatId,
                                           update[h].target)
        IN /\ groupOperators' = groupOperators \ deleted
           /\ update' = [update EXCEPT ![h] =
                Done(@, IF deleted # {} THEN "removed" ELSE "absent")]
     \/ /\ update' = [update EXCEPT ![h] = Done(@, "failed")]
        /\ UNCHANGED groupOperators
  /\ UNCHANGED <<engineVars, http, parsed, updateSeq, operatorIdSeq>>

\* bound on the number of updates the bot receives
MaxUpdates == 3

\* the texts of the updates: a spend, a payment, a usage, a fee rate of
\* 50%, and a text that is no command
UpdateTexts ==
  {<<"+", "1">>, <<Chu, Zhang, "1">>, <<Ru, Zhang, "1">>,
   <<Fei, Lv, "5", "0", "%">>, <<"x">>}

\* the users an operator command names
Targets == {"u1", NoUser}

\* one handler runs at a time: ledger, fee-rate and operator commands
NextBot ==
  \E h \in SeqCallers :
    \/ /\ updateSeq <= MaxUpdates
       /\ \E chatId \in Chats, from \in Senders, text \in UpdateTexts :
            ReceiveText(h, chatId, from, text)
    \/ /\ updateSeq <= MaxUpdates
       /\ \E action \in {"operator_add", "operator_remove"}, chatId \in Chats,
             from \in Senders, target \in Targets :
            ReceiveOperatorCommand(h, action, chatId, from, target)
    \/ HasBotPermission(h)
    \/ CallOperation(h)
    \/ CommandStep(h)
    \/ Reply(h)
    \/ AddGroupOperator(h)
    \/ RemoveGroupOperator(h)

SpecBot == Init /\ [][NextBot]_vars

\* two handlers run operator commands concurrently
NextOperators ==
  \E h \in Callers :
    \/ /\ updateSeq <= MaxUpdates
       /\ \E action \in {"operator_add", "operator_remove"}, chatId \in Chats,
             from \in Senders, target \in Targets :
            ReceiveOperatorCommand(h, action, chatId, from, target)
    \/ AddGroupOperator(h)
    \/ RemoveGroupOperator(h)

SpecOperators == Init /\ [][NextOperators]_vars

\* ------------------------------------------------------------------------
\* Helpers of the properties
\* ------------------------------------------------------------------------
RowsOf(chatId) == {r \in groupBalances : r.chatId = chatId}

RecordsOf(groupId) == {t \in transactions : t.groupId = groupId}

MoneyTypes == {"PENDING_ADD", "PENDING_REDUCE", "DEPOSIT"}

AllIdle == \A p \in Callers : pc[p] = "idle"

\* the record of the group inserted last
LastRecord(groupId) ==
  CHOOSE t \in RecordsOf(groupId) : \A u \in RecordsOf(groupId) : u.id <= t.id

\* ------------------------------------------------------------------------
\* C1: after every accepted operation of every sequence from a fresh
\* account, with any non-zero amount of either sign and any rate >= 0, the
\* stored reserve and the stored pending are >= 0.
\* ------------------------------------------------------------------------
C1_NonNegativeBalances ==
  \A r \in groupBalances : r.reserveBalance >= 0 /\ r.pendingAmount >= 0

\* ------------------------------------------------------------------------
\* C2: in every committed state, the reserveAfter and pendingAfter of the
\* record appended by the most recently committed operation on an account
\* equal the account's stored reserve_balance and pending_amount.
\* ------------------------------------------------------------------------
C2_NoDrift ==
  \A g \in groupBalances :
    RecordsOf(g.id) # {} =>
      /\ LastRecord(g.id).reserveAfter = g.reserveBalance
      /\ LastRecord(g.id).pendingAmountAfter = g.pendingAmount

\* two operations committed on an account that holds a balance, the second
\* one a record of its own
C2_Witness ==
  \E g \in groupBalances :
    /\ Cardinality(RecordsOf(g.id)) >= 2
    /\ g.pendingAmount > 0
    /\ \E t \in RecordsOf(g.id) : t.pendingAmountAfter # g.pendingAmount

\* ------------------------------------------------------------------------
\* C3: two concurrent operations on the same account take effect one after
\* the other: an operation never computes from balances or a rate that are
\* not the committed ones, and what it is about to commit (its GroupState,
\* its row, its record's snapshot) is its operation applied to the
\* committed state of the account.
\* ------------------------------------------------------------------------
FreshState == [id |-> 0, reserve |-> Zero, pendingAmount |-> Zero,
               serviceRate |-> Zero]

\* the committed state of the account of chatId as ensureGroup would load it
CommittedState(chatId) ==
  IF RowsOf(chatId) = {} THEN FreshState
  ELSE GroupStateOf(CHOOSE r \in RowsOf(chatId) : TRUE)

SameLedger(g, h) ==
  /\ g.reserve = h.reserve
  /\ g.pendingAmount = h.pendingAmount
  /\ g.serviceRate = h.serviceRate

\* the operation of caller p applied to the committed state of its account
Serial(p) ==
  LET base == CommittedState(ctx[p].chatId)
  IN CASE ctx[p].kind \in MoneyKinds ->
            MoneyOp(ctx[p].kind, base, ctx[p].amount).group
       [] ctx[p].kind = "updateGroupServiceRate" ->
            updateGroupServiceRate(base, ctx[p].serviceRate).group
       [] OTHER -> base

C3_NoLostUpdate ==
  \A p \in Callers :
    /\ pc[p] = "compute" => SameLedger(group[p], CommittedState(ctx[p].chatId))
    /\ pc[p] \in {"save", "record", "commit"} => SameLedger(group[p], Serial(p))
    /\ (pc[p] \in {"record", "commit"} /\ ctx[p].kind \in MoneyKinds) =>
         /\ txGroup[p].reserveBalance = toDbString(Serial(p).reserve)
         /\ txGroup[p].pendingAmount = toDbString(Serial(p).pendingAmount)
         /\ toDecimal(txGroup[p].serviceRate) = Serial(p).serviceRate
    /\ (pc[p] \in {"record", "commit"}
        /\ ctx[p].kind = "updateGroupServiceRate") =>
         txGroup[p].serviceRate = toDbString(Serial(p).serviceRate)
    /\ \A t \in txRecs[p] :
         /\ t.reserveAfter = toDbString(Serial(p).reserve)
         /\ t.pendingAmountAfter = toDbString(Serial(p).pendingAmount)

\* a money operation is about to commit on an account on which an operation
\* that began after it has already committed a record: the two overlapped
C3_Witness ==
  \E p \in Callers :
    /\ pc[p] = "commit"
    /\ ctx[p].kind \in MoneyKinds
    /\ \E t \in RecordsOf(txGroup[p].id) :
         /\ t.createdAt > txNow[p]
         /\ t.type \in MoneyTypes
         /\ (t.reserveAfter # 0 \/ t.pendingAmountAfter # 0)

\* ------------------------------------------------------------------------
\* C4: concurrent first use of a chatId leaves exactly one account row with
\* that chatId, and every committed operation's record is on that row.
\* ------------------------------------------------------------------------
C4_OneRowPerChat ==
  /\ \A g \in Chats : Cardinality(RowsOf(g)) <= 1
  /\ \A r1, r2 \in groupBalances : r1.id = r2.id => r1 = r2
  /\ \A g \in Chats :
       moneyCommits[g] > 0 =>
         \E r \in RowsOf(g) :
           Cardinality({t \in RecordsOf(r.id) : t.type \in MoneyTypes})
             = moneyCommits[g]
  /\ \A t \in transactions : \E r \in groupBalances : r.id = t.groupId
  /\ \A p \in Callers :
       result[p].status = "ok" => Cardinality(RowsOf(result[p].chatId)) = 1

\* both callers began the first operations ever on the chat before either
\* had inserted its row (the one that began first recorded last), and both
\* committed
C4_Witness ==
  /\ AllIdle
  /\ \E p, q \in Callers :
       /\ p # q
       /\ result[p].status = "ok" /\ result[q].status = "ok"
       /\ result[p].chatId = result[q].chatId
       /\ \E t1, t2 \in RecordsOf(result[p].state.id) :
            /\ t1.createdAt = 1 /\ t2.createdAt = 2
            /\ t1.id > t2.id

\* ------------------------------------------------------------------------
\* C5: an operation of which a step fails commits none of its writes: the
\* tables are as before and the caller receives a failure; the tables change
\* only when an operation commits.
\* ------------------------------------------------------------------------
TablesUnchanged ==
  groupBalances' = groupBalances /\ transactions' = transactions

C5_AllOrNothing ==
  [][/\ \A p \in Callers :
          (pc[p] # "idle" /\ pc'[p] = "idle" /\ result'[p].status # "ok") =>
            (result'[p].status = "error" /\ TablesUnchanged)
     /\ ~TablesUnchanged =>
          \E p \in Callers : pc[p] = "commit" /\ result'[p].status = "ok"]_vars

\* an operation that had inserted an account row and a record failed in the
\* store, and the tables are empty
C5_Witness ==
  /\ AllIdle
  /\ groupBalances = {} /\ transactions = {}
  /\ groupIdSeq > 1 /\ txIdSeq > 1
  /\ \E p \in Callers :
       result[p].status = "error" /\ result[p].error = "StoreUnavailable"

\* ------------------------------------------------------------------------
\* C6: addReserve fails with InsufficientPending whenever pendingBefore is
\* less than total = amount + amount * serviceRate, and then the account's
\* reserve, pending and serviceRate are unchanged and no record is appended.
\* ------------------------------------------------------------------------
C6_InsufficientPending ==
  [][\A p \in Callers :
       (/\ pc[p] = "compute" /\ pc'[p] # "compute"
        /\ ctx[p].kind = "addReserve"
        /\ lt(group[p].pendingAmount,
              plus(ctx[p].amount, mul(ctx[p].amount, group[p].serviceRate)))) =>
         /\ result'[p].status = "error"
         /\ result'[p].error = "InsufficientPending"
         /\ TablesUnchanged]_vars

\* a deposit was rejected on an account that owes something and has a rate
C6_Witness ==
  \E p \in Callers :
    /\ result[p].error = "InsufficientPending"
    /\ \E r \in RowsOf(result[p].chatId) :
         r.pendingAmount > 0 /\ r.serviceRate > 0

\* ------------------------------------------------------------------------
\* C7: every committed money operation appends exactly one record to its
\* account and a failed one none: per account the records of the types
\* PENDING_ADD, PENDING_REDUCE and DEPOSIT are as many as the committed
\* money operations.
\* ------------------------------------------------------------------------
MoneyRecordsOf(chatId) ==
  {t \in transactions :
     t.type \in MoneyTypes /\ \E r \in RowsOf(chatId) : r.id = t.groupId}

C7_OneRecordPerMoneyOp ==
  /\ \A g \in Chats : Cardinality(MoneyRecordsOf(g)) = moneyCommits[g]
  /\ \A p \in Callers :
       (pc[p] = "commit" /\ ctx[p].kind \in MoneyKinds) =>
         Cardinality(txRecs[p]) = 1

\* two money operations committed and one that had inserted its record failed
C7_Witness ==
  /\ AllIdle
  /\ \E g \in Chats : moneyCommits[g] >= 2
  /\ txIdSeq > Cardinality(transactions) + 1

\* ------------------------------------------------------------------------
\* C8: the transaction log is append-only: a record, once committed, is in
\* the table with the same fields in every later state.
\* ------------------------------------------------------------------------
C8_AppendOnly == [][\A t \in transactions : t \in transactions']_vars

\* an account has an earlier record next to a later one of another snapshot
C8_Witness ==
  \E t1, t2 \in transactions :
    /\ t1.groupId = t2.groupId /\ t1.id < t2.id
    /\ t1.pendingAmountAfter # t2.pendingAmountAfter

\* ------------------------------------------------------------------------
\* C9: for every account, each record's reserveAfter/pendingAfter is the
\* result of applying the record's operation to the snapshot of the record
\* before it in createdAt order (0/0 before the first), also when the
\* operations were invoked concurrently.
\* ------------------------------------------------------------------------
\* the snapshot before record t in createdAt order
SnapshotBefore(t) ==
  LET earlier == {u \in RecordsOf(t.groupId) : u.createdAt < t.createdAt}
      prev == CHOOSE u \in earlier : \A w \in earlier : w.createdAt <= u.createdAt
  IN IF earlier = {} THEN [reserve |-> Zero, pendingAmount |-> Zero]
     ELSE [reserve |-> toDecimal(prev.reserveAfter),
           pendingAmount |-> toDecimal(prev.pendingAmountAfter)]

\* the operation that wrote record t, applied to the snapshot s
Replayed(t, s) ==
  LET op == applied[t.id]
      g == [id |-> t.groupId, reserve |-> s.reserve,
            pendingAmount |-> s.pendingAmount, serviceRate |-> op.serviceRate]
  IN IF op.kind \in MoneyKinds THEN MoneyOp(op.kind, g, op.amount).group ELSE g

C9_ReplayByCreatedAt ==
  \A t \in transactions :
    /\ t.reserveAfter = toDbString(Replayed(t, SnapshotBefore(t)).reserve)
    /\ t.pendingAmountAfter =
         toDbString(Replayed(t, SnapshotBefore(t)).pendingAmount)

\* ------------------------------------------------------------------------
\* C10: addPendingAmount with total = amount + amount * serviceRate >= 0
\* sets reserve = reserveBefore - min(reserveBefore, total) and pending =
\* pendingBefore + (total - min(reserveBefore, total)) and returns
\* rechargePrincipal = max(amount - min(reserveBefore, total), 0); pending
\* grows only when the reserve ends at 0.
\* ------------------------------------------------------------------------
\* a Decimal as an integer count of 10^-(SCALE+1)
Units(d) == Lift(d, SCALE + 1)

IntMin(a, b) == IF a <= b THEN a ELSE b

IntMax(a, b) == IF a >= b THEN a ELSE b

C10_CreditPendingNetDebit ==
  [][\A p \in Callers :
       (/\ pc[p] = "compute" /\ pc'[p] = "save"
        /\ ctx[p].kind = "addPendingAmount") =>
         LET rb == Units(group[p].reserve)
             pb == Units(group[p].pendingAmount)
             a == Units(ctx[p].amount)
             rate == group[p].serviceRate
             fee == Units(calc'[p].serviceFee)
             total == Units(calc'[p].total)
             used == IntMin(rb, total)
         IN /\ fee * Pow10(rate.s) = a * rate.m
            /\ total = a + fee
            /\ total >= 0 =>
                 /\ Units(group'[p].reserve) = rb - used
                 /\ Units(group'[p].pendingAmount) = pb + (total - used)
                 /\ Units(calc'[p].rechargePrincipal) = IntMax(a - used, 0)
                 /\ Units(group'[p].pendingAmount) > pb =>
                      Units(group'[p].reserve) = 0]_vars

\* a spend with a fee was covered by a reserve that is not used up
C10_Witness ==
  \E p \in Callers :
    /\ result[p].status = "ok" /\ result[p].kind = "addPendingAmount"
    /\ gt(result[p].amount, Zero)
    /\ gt(result[p].value.serviceFee, Zero)
    /\ lt(result[p].value.reserveDelta, Zero)
    /\ gt(result[p].state.reserve, Zero)
    /\ result[p].value.rechargePrincipal = Zero

\* ------------------------------------------------------------------------
\* C11: addPendingAmount with total = amount + amount * serviceRate < 0 (a
\* net credit) sets pending = pendingBefore - min(pendingBefore, -total) and
\* reserve = reserveBefore + (-total - min(pendingBefore, -total)); the
\* reserve grows only when pending ends at 0.
\* ------------------------------------------------------------------------
C11_CreditPendingNetCredit ==
  [][\A p \in Callers :
       (/\ pc[p] = "compute" /\ pc'[p] = "save"
        /\ ctx[p].kind = "addPendingAmount") =>
         LET rb == Units(group[p].reserve)
             pb == Units(group[p].pendingAmount)
             a == Units(ctx[p].amount)
             rate == group[p].serviceRate
             total == Units(calc'[p].total)
             paid == IntMin(pb, -total)
         IN /\ total * Pow10(rate.s) = a * Pow10(rate.s) + a * rate.m
            /\ total < 0 =>
                 /\ Units(group'[p].pendingAmount) = pb - paid
                 /\ Units(group'[p].reserve) = rb + (-total - paid)
                 /\ Units(group'[p].reserve) > rb =>
                      Units(group'[p].pendingAmount) = 0]_vars

\* a credit with a fee paid off all that was pending and the rest of it
\* went to the reserve
C11_Witness ==
  \E p \in Callers :
    /\ result[p].status = "ok" /\ result[p].kind = "addPendingAmount"
    /\ lt(result[p].amount, Zero)
    /\ lt(result[p].value.serviceFee, Zero)
    /\ gt(result[p].value.pendingBefore, Zero)
    /\ result[p].state.pendingAmount = Zero
    /\ gt(result[p].value.reserveDelta, Zero)

C13_WithdrawFromReserve ==
  [][\A p \in Callers :
       (/\ pc[p] = "compute" /\ pc'[p] # "compute"
        /\ ctx[p].kind = "deductReserve") =>
         LET rb == Units(group[p].reserve)
             pb == Units(group[p].pendingAmount)
             u == Units(ctx[p].amount)
         IN /\ pc'[p] = "save"
            /\ rb - u >= 0 =>
                 /\ Units(group'[p].reserve) = rb - u
                 /\ Units(group'[p].pendingAmount) = pb
            /\ rb - u < 0 =>
                 /\ Units(group'[p].reserve) = 0
                 /\ Units(group'[p].pendingAmount) = pb + (u - rb)
            /\ calc'[p].serviceFee = Zero
            /\ Units(calc'[p].total) = u
            /\ group'[p].serviceRate = group[p].serviceRate]_vars

\* on an account with a rate, a usage larger than the reserve emptied the
\* reserve and the rest became pending
C13_Witness ==
  \E p \in Callers :
    /\ result[p].status = "ok" /\ result[p].kind = "deductReserve"
    /\ gt(result[p].state.serviceRate, Zero)
    /\ lt(result[p].value.reserveDelta, Zero)
    /\ result[p].state.reserve = Zero
    /\ gt(result[p].state.pendingAmount, result[p].value.pendingBefore)

\* ------------------------------------------------------------------------
\* C14: when deductReserve takes its shortfall path (usage > reserveBefore),
\* the rechargePrincipal of the result it returns equals the shortfall
\* usage - reserveBefore, the amount by which pending grew.
\* ------------------------------------------------------------------------
C14_ShortfallPrincipal ==
  \A p \in Callers :
    (/\ result[p].status = "ok" /\ result[p].kind = "deductReserve"
     /\ gt(result[p].state.pendingAmount, result[p].value.pendingBefore)) =>
      result[p].value.rechargePrincipal =
        minus(result[p].state.pendingAmount, result[p].value.pendingBefore)

C16_SameRateTwice ==
  [][\A p \in Callers :
       /\ (/\ pc[p] = "commit" /\ result'[p].status = "ok"
           /\ ctx[p].kind = "updateGroupServiceRate"
           /\ lastRateCall[ctx[p].chatId] # NoRateCall
           /\ lastRateCall[ctx[p].chatId].rate = ctx[p].serviceRate) =>
            Cardinality({t \in transactions' : t.groupId = group[p].id})
              = lastRateCall[ctx[p].chatId].records + 1
       /\ (pc[p] = "compute" /\ ctx[p].kind = "updateGroupServiceRate") =>
            pc'[p] \in {"compute", "save", "commit"}]_vars

\* ------------------------------------------------------------------------
\* C17: a SERVICE_RATE_UPDATE record exists only for an actual change:
\* updateGroupServiceRate appends a record if and only if the serviceRate
\* stored for the account after the call differs from the one stored before
\* it (0 for an account the call creates), also for rates with more than 6
\* fractional digits.
\* ------------------------------------------------------------------------
C17_RecordIffRateChanged ==
  [][\A p \in Callers :
       (/\ pc[p] = "commit" /\ result'[p].status = "ok"
        /\ ctx[p].kind = "updateGroupServiceRate") =>
         LET before == toDbString(CommittedState(ctx[p].chatId).serviceRate)
             after == {r.serviceRate : r \in {x \in groupBalances' :
                                                x.chatId = ctx[p].chatId}}
         IN (transactions' # transactions) <=> (after # {before})]_vars

C19_ZeroAmountRejected ==
  /\ \A p \in Callers :
       (/\ result[p].status # "none" /\ result[p].kind \in MoneyKinds
        /\ result[p].amount = Zero) =>
         /\ result[p].status = "error"
         /\ result[p].error \in {"InvalidAmount", "StoreUnavailable"}
  /\ \A i \in DOMAIN applied :
       applied[i].kind \in MoneyKinds => applied[i].amount # Zero

\* ------------------------------------------------------------------------
\* C20: create on demand: a mutating operation for a chatId that has no
\* account never fails with account-not-found (ensureGroup's "Unable to
\* load group"); it computes from reserve = 0, pending = 0, serviceRate = 0,
\* and after it commits exactly one account with that chatId exists.
\* ------------------------------------------------------------------------
C20_CreateOnDemand ==
  [][\A p \in Callers :
       /\ result'[p].error # "UnableToLoadGroup"
       /\ (pc'[p] = "compute" /\ RowsOf(ctx'[p].chatId) = {}) =>
            /\ SameLedger(group'[p], FreshState)
            /\ group'[p].id # FreshState.id
       /\ (pc[p] = "commit" /\ result'[p].status = "ok"
           /\ RowsOf(ctx[p].chatId) = {}) =>
            /\ Cardinality({r \in groupBalances' : r.chatId = ctx[p].chatId}) = 1
            /\ SameLedger(result'[p].state, Serial(p))]_vars

\* the first operation on a chat committed: it was computed from zero
\* balances, the chat has its one account, the other chat has none
C20_Witness ==
  \E p \in Callers :
    /\ result[p].status = "ok" /\ result[p].kind = "addPendingAmount"
    /\ result[p].value.pendingBefore = Zero
    /\ gt(result[p].state.pendingAmount, Zero)
    /\ Cardinality(RecordsOf(result[p].state.id)) = 1
    /\ \E r \in RowsOf(result[p].chatId) :
         /\ RowsOf(result[p].chatId) = {r}
         /\ r.id = result[p].state.id
         /\ r.pendingAmount = toDbString(result[p].amount)
    /\ \E g \in Chats : RowsOf(g) = {}

\* ------------------------------------------------------------------------
\* C21: getHistory(chatId, limit) answers "not found" exactly when no
\* account has the chatId; otherwise it returns records of that account
\* only, at most limit of them, those of the greatest createdAt, newest
\* first, and none when the account has no record.  The routes use limit 50
\* when the limit parameter is missing or not a positive integer, and never
\* more than 500.
\* ------------------------------------------------------------------------
\* the string spells a positive integer in decimal digits
IsPositiveInteger(limitParam) ==
  /\ limitParam.type = "string"
  /\ limitParam.chars # <<>>
  /\ \A i \in 1..Len(limitParam.chars) : IsDigit(limitParam.chars[i])
  /\ DecimalValue(limitParam.chars) > 0

IsRange(s, rows) ==
  /\ \A i \in 1..Len(s) : s[i] \in rows
  /\ \A i, j \in 1..Len(s) : i # j => s[i] # s[j]

\* what getHistory does once its limit is fixed
HistoryAnswer ==
  /\ (http.pc = "find" /\ http'.pc # "find") =>
       /\ (http'.data.status = "404") <=> (RowsOf(http.chatId) = {})
       /\ http'.data.status # "404" =>
            /\ http'.pc = "select"
            /\ http'.group \in RowsOf(http.chatId)
  /\ (http.pc = "select" /\ http'.pc # "select") =>
       LET rows == RecordsOf(http.group.id)
           h == http'.data.history
       IN /\ http'.data.status = "ok"
          /\ http'.data.group.chatId = http.chatId
          /\ IsRange(h, rows)
          /\ Len(h) = IntMin(http.limit, Cardinality(rows))
          /\ \A i, j \in 1..Len(h) :
               i < j => h[i].createdAt >= h[j].createdAt
          /\ \A t \in rows : \A i \in 1..Len(h) :
               (\A j \in 1..Len(h) : h[j] # t) =>
                 t.createdAt <= h[i].createdAt

C21_HistoryQuery ==
  [][/\ HistoryAnswer
     /\ (http.pc = "idle" /\ http'.pc = "find") =>
          /\ http'.limit <= MaxLimit
          /\ ~IsPositiveInteger(http'.limitParam) =>
               http'.limit = DefaultLimit
          /\ IsPositiveInteger(http'.limitParam) =>
               http'.limit =
                 IntMin(DecimalValue(http'.limitParam.chars), MaxLimit)]_vars

\* the positive numbers spelled by the digits the string begins with, after
\* blanks and a plus sign if any
LeadingPositives(chars) ==
  LET spans == {x \in (0..Len(chars)) \X (0..1) \X (1..Len(chars)) :
                  /\ x[1] + x[2] + x[3] <= Len(chars)
                  /\ \A i \in 1..x[1] : chars[i] = " "
                  /\ x[2] = 1 => chars[x[1] + 1] = "+"
                  /\ \A i \in (x[1] + x[2] + 1)..(x[1] + x[2] + x[3]) :
                       IsDigit(chars[i])
                  /\ \/ x[1] + x[2] + x[3] = Len(chars)
                     \/ ~IsDigit(chars[x[1] + x[2] + x[3] + 1])}
  IN {DecimalValue(SubSeq(chars, x[1] + x[2] + 1, x[1] + x[2] + x[3])) :
        x \in spans} \ {0}

\* C21 as the code has it: the routes use the positive integer the limit
\* parameter begins with (Number.parseInt), capped at 500, and 50 when the
\* parameter is missing or begins with none.
C21_HistoryQueryLeadingInteger ==
  [][/\ HistoryAnswer
     /\ (http.pc = "idle" /\ http'.pc = "find") =>
          LET param == http'.limitParam
              ns == IF param.type # "string" THEN {}
                    ELSE LeadingPositives(param.chars)
          IN /\ http'.limit <= MaxLimit
             /\ ns = {} => http'.limit = DefaultLimit
             /\ \A n \in ns : http'.limit = IntMin(n, MaxLimit)]_vars

\* a request whose limit parameter is "2x" was answered with the two
\* records of the account, the newer one first
C21_Witness ==
  /\ http.pc = "idle" /\ http.data.status = "ok"
  /\ http.limitParam = QueryParam("string", <<"2", "x">>)
  /\ http.data.limit = 2
  /\ Len(http.data.history) = 2
  /\ http.data.history[1].createdAt > http.data.history[2].createdAt

\* ------------------------------------------------------------------------
\* C22: operations on different accounts do not block each other
\* ------------------------------------------------------------------------
\* no other open transaction holds a row version of the account p works on
OnlyOtherAccountsLocked(p) ==
  \A q \in Callers \ {p} :
    txGroup[q] # NoRow => txGroup[q].chatId # ctx[p].chatId

\* the next statement p's transaction sends to the store can be executed;
\* between ensureGroup and saveState the callback only computes
CanProceed(p) ==
  CASE pc[p] = "upsert" -> ENABLED Upsert(p)
    [] pc[p] = "find" -> ENABLED FindFirst(p)
    [] pc[p] = "compute" -> TRUE
    [] pc[p] = "save" -> ENABLED (SaveState(p) \/ UpdateServiceRate(p))
    [] pc[p] = "record" -> ENABLED RecordTransaction(p)
    [] pc[p] = "commit" -> ENABLED Commit(p)
    [] OTHER -> FALSE

\* C22: at every statement of an operation, from its begin to its commit,
\* the operation can proceed whenever the row locks held by the other open
\* transactions are all on accounts with a different chatId: it never
\* waits for a transaction on another account.
C22_NoCrossAccountBlocking ==
  \A p \in Callers :
    (pc[p] # "idle" /\ OnlyOtherAccountsLocked(p)) => CanProceed(p)

\* an operation on g2 that began after the transaction on g1 has committed
\* its record while the transaction on g1 still holds the row lock of g1
C22_Witness ==
  \E p, q \in Callers :
    /\ p # q
    /\ txGroup[q] # NoRow /\ txGroup[q].chatId = "g1"
    /\ pc[q] \in {"find", "compute", "save", "record", "commit"}
    /\ pc[p] = "idle" /\ result[p].status = "ok" /\ result[p].chatId = "g2"
    /\ \E t \in transactions :
         /\ t.groupId = result[p].state.id
         /\ t.createdAt > txNow[q]

\* ------------------------------------------------------------------------
\* C23: the title is refreshed on every call, last write wins
\* ------------------------------------------------------------------------
\* p's call commits and returns normally in this step
Commits(p) ==
  pc[p] = "commit" /\ pc'[p] = "idle" /\ result'[p].status = "ok"

\* C23: when a call of any of the six operations commits, on a new or an
\* existing account, the account's stored chatTitle is the chatTitle
\* supplied with that call, and null when the call supplied none; the
\* previous title is not kept.
C23_TitleRefresh ==
  [][\A p \in SeqCallers :
       Commits(p) =>
         /\ \E r \in groupBalances' : r.chatId = ctx[p].chatId
         /\ \A r \in groupBalances' :
              r.chatId = ctx[p].chatId => r.chatTitle = ctx[p].chatTitle]_vars

\* a call without a title is about to commit on an account stored with a
\* title: the row version it commits holds null
C23_Witness ==
  \E p \in SeqCallers :
    /\ pc[p] = "commit"
    /\ ctx[p].chatTitle = NoTitle
    /\ \E r \in groupBalances : r.chatId = ctx[p].chatId /\ r.chatTitle = "t1"
    /\ txGroup[p] # NoRow /\ txGroup[p].chatTitle = NoTitle

\* ------------------------------------------------------------------------
\* C24: the type and the amount of the record each operation appends
\* ------------------------------------------------------------------------
\* the record type named for each operation
RecordTypeOf(kind) ==
  CASE kind = "addPendingAmount" -> "PENDING_ADD"
    [] kind = "reducePendingAmount" -> "PENDING_REDUCE"
    [] kind = "addReserve" -> "DEPOSIT"
    [] kind = "deductReserve" -> "DEPOSIT"
    [] kind = "updateGroupServiceRate" -> "SERVICE_RATE_UPDATE"
    [] OTHER -> ""

\* C24: the record a committed operation appends has the type of the
\* operation (PENDING_ADD for addPendingAmount, PENDING_REDUCE for
\* reducePendingAmount, DEPOSIT for addReserve and for deductReserve,
\* SERVICE_RATE_UPDATE for a rate change), no record has another type, and
\* the amount of a money operation's record equals the amount the caller
\* submitted.
C24_RecordTypeAndAmount ==
  [][\A p \in SeqCallers :
       Commits(p) =>
         \A t \in transactions' \ transactions :
           /\ t.type = RecordTypeOf(ctx[p].kind)
           /\ t.type \in MoneyTypes \cup {"SERVICE_RATE_UPDATE"}
           /\ ctx[p].kind \in MoneyKinds =>
                eq(toDecimal(t.amount), ctx[p].amount)]_vars

\* ------------------------------------------------------------------------
\* C25: a prepaid float and an outstanding debt never coexist
\* ------------------------------------------------------------------------
\* a stored row holds no negative balance and at most one non-zero balance
NoFloatWithDebt(row) ==
  /\ row.reserveBalance >= 0
  /\ row.pendingAmount >= 0
  /\ row.reserveBalance = 0 \/ row.pendingAmount = 0

IsPositive(v) == v.class \in {"number", "Infinity"} /\ v.d.m > 0

\* C26: a command returned by parseCommand never carries an amount equal
\* to 0; the amount of a payment (REDUCE) or usage (DEPOSIT) command is
\* strictly positive; a command with a negative amount is a PENDING_ADD
\* command, whose text starts with '+' or '-'.
C26_ParsedAmounts ==
  parsed.status = "parsed" /\ parsed.command.kind # "null" =>
    LET amount == parsed.command.amount
        normalized == RemoveWhitespace(Trim(parsed.text))
    IN /\ ~IsZero(amount)
       /\ parsed.command.kind \in {"REDUCE", "DEPOSIT"} => IsPositive(amount)
       /\ IsNegative(amount) =>
            /\ parsed.command.kind = "PENDING_ADD"
            /\ Head(normalized) \in {"+", "-"}

\* ------------------------------------------------------------------------
\* C27: no state change without permission
\* ------------------------------------------------------------------------
\* the sender is a global admin or an operator of this very chat
Permitted(chatId, from) ==
  /\ from # NoUser
  /\ \/ from \in Admins
     \/ \E r \in groupOperators : r.chatId = chatId /\ r.userId = from

OperatorRows(rows, chatId, userId) ==
  {r \in rows : r.chatId = chatId /\ r.userId = userId}

\* handler h executes its statement on group_operators in this step
OperatorStatement(h) == update[h].pc = "operator" /\ update'[h].pc = "idle"

\* C28: there is at most one operator row per (chatId, userId);
\* addGroupOperator returns true exactly when the pair had no row, and the
\* pair has a row afterwards; removeGroupOperator returns true exactly when
\* the pair had a row, and the pair has none afterwards; the rows of other
\* pairs stay, a failed statement and every other step change nothing, so
\* isGroupOperator holds exactly of the pairs added and not removed since;
\* of two adds of the same pair in flight together, the first to execute
\* returns true and leaves the other a pair that is present.
C28_OperatorRelation ==
  [][/\ \A r1, r2 \in groupOperators' :
          (r1.chatId = r2.chatId /\ r1.userId = r2.userId) => r1 = r2
     /\ \A h \in Callers :
          OperatorStatement(h) =>
            LET c == update[h].chatId
                u == update[h].target
                before == OperatorRows(groupOperators, c, u)
                after == OperatorRows(groupOperators', c, u)
                answer == update'[h].answer
            IN /\ groupOperators' \ after = groupOperators \ before
               /\ answer = "failed" => groupOperators' = groupOperators
               /\ (answer # "failed" /\ update[h].kind = "operator_add") =>
                    /\ (answer = "created") = (before = {})
                    /\ answer \in {"created", "exists"}
                    /\ after # {}
                    /\ isGroupOperator(groupOperators', c, u)
               /\ (answer # "failed" /\ update[h].kind = "operator_remove") =>
                    /\ (answer = "removed") = (before # {})
                    /\ answer \in {"removed", "absent"}
                    /\ after = {}
                    /\ ~isGroupOperator(groupOperators', c, u)
     /\ groupOperators' # groupOperators =>
          \E h \in Callers : OperatorStatement(h)]_vars

\* two adds of the same pair were in flight together: the one received
\* later has returned true, the other has not executed yet
C28_Witness ==
  \E h, k \in Callers :
    /\ h # k
    /\ update[h].pc = "idle" /\ update[h].kind = "operator_add"
    /\ update[h].answer = "created"
    /\ update[k].pc = "operator" /\ update[k].kind = "operator_add"
    /\ update[k].chatId = update[h].chatId
    /\ update[k].target = update[h].target
    /\ update[k].id < update[h].id
    /\ OperatorRows(groupOperators, update[k].chatId, update[k].target) # {}

\* ------------------------------------------------------------------------
\* C29: the state an operation returns is the state it stored
\* ------------------------------------------------------------------------
\* C29: when a money operation commits, the reserve and the pending of the
\* state it returns equal the reserve_balance and the pending_amount the
\* account's row holds after the commit, and the reserveAfter and
\* pendingAmountAfter of the record it appended, whatever the number of
\* fractional digits of amount * serviceRate.
C29_ReturnedEqualsStored ==
  [][\A p \in SeqCallers :
       (Commits(p) /\ ctx[p].kind \in MoneyKinds) =>
         LET returned == result'[p].state
         IN /\ \A r \in groupBalances' :
                 r.chatId = ctx[p].chatId =>
                   /\ eq(returned.reserve, toDecimal(r.reserveBalance))
                   /\ eq(returned.pendingAmount, toDecimal(r.pendingAmount))
            /\ \A t \in transactions' \ transactions :
                 /\ eq(returned.reserve, toDecimal(t.reserveAfter))
                 /\ eq(returned.pendingAmount,
                       toDecimal(t.pendingAmountAfter))]_vars

\* ------------------------------------------------------------------------
\* C30: the result tells the balances the account had before
\* ------------------------------------------------------------------------
\* the balances stored for the chat, zero when it has no account yet
StoredBalances(chatId) ==
  IF \E r \in groupBalances : r.chatId = chatId
  THEN LET r == CHOOSE x \in groupBalances : x.chatId = chatId
       IN [reserve |-> toDecimal(r.reserveBalance),
           pendingAmount |-> toDecimal(r.pendingAmount)]
  ELSE [reserve |-> Zero, pendingAmount |-> Zero]

\* C30: when a money operation commits, the reserve of the returned state
\* minus the returned reserveDelta is the reserve the account had before
\* the operation, and the returned pendingBefore is the pending it had
\* before, for amounts of either sign and on each branch.
C30_ResultConsistency ==
  [][\A p \in SeqCallers :
       (Commits(p) /\ ctx[p].kind \in MoneyKinds) =>
         LET res == result'[p]
             before == StoredBalances(ctx[p].chatId)
         IN /\ eq(minus(res.state.reserve, res.value.reserveDelta),
                  before.reserve)
            /\ eq(res.value.pendingBefore, before.pendingAmount)]_vars

\* a negative spend on an account in debt cleared the debt and put the
\* rest into the reserve
C30_Witness ==
  \E p \in SeqCallers :
    /\ result[p].status = "ok" /\ result[p].kind = "addPendingAmount"
    /\ lt(result[p].amount, Zero)
    /\ gt(result[p].value.pendingBefore, Zero)
    /\ gt(result[p].value.reserveDelta, Zero)
    /\ eq(result[p].state.pendingAmount, Zero)

\* ------------------------------------------------------------------------
\* C31: the net position pending - reserve moves by the signed total
\* ------------------------------------------------------------------------
\* the stored pending_amount - reserve_balance of the chat's account in the
\* given rows, zero when the chat has no account
NetPosition(rows, chatId) ==
  IF \E r \in rows : r.chatId = chatId
  THEN LET r == CHOOSE x \in rows : x.chatId = chatId
       IN minus(toDecimal(r.pendingAmount), toDecimal(r.reserveBalance))
  ELSE Zero

\* the service rate stored for the chat, the column's default 0 when it has
\* no account
StoredRate(chatId) ==
  IF \E r \in groupBalances : r.chatId = chatId
  THEN LET r == CHOOSE x \in groupBalances : x.chatId = chatId
       IN toDecimal(r.serviceRate)
  ELSE Zero

ConservedKinds ==
  {"addPendingAmount", "reducePendingAmount", "deductReserve",
   "updateGroupServiceRate"}

\* by how much the operation is to move pending - reserve
SignedTotal(kind, amount, serviceRate) ==
  CASE kind = "addPendingAmount" -> calculateTotals(amount, serviceRate).total
    [] kind = "reducePendingAmount" -> neg(amount)
    [] kind = "deductReserve" -> amount
    [] OTHER -> Zero

\* C31: when addPendingAmount, reducePendingAmount, deductReserve or
\* updateGroupServiceRate commits, the stored pending_amount -
\* reserve_balance of the account changes by exactly amount + amount *
\* serviceRate, by - payment, by + usage and by 0 respectively.
C31_NetPositionConserved ==
  [][\A p \in SeqCallers :
       (Commits(p) /\ ctx[p].kind \in ConservedKinds) =>
         eq(minus(NetPosition(groupBalances', ctx[p].chatId),
                  NetPosition(groupBalances, ctx[p].chatId)),
            SignedTotal(ctx[p].kind, ctx[p].amount,
                        StoredRate(ctx[p].chatId)))]_vars

\* ------------------------------------------------------------------------
\* C32: the balances and the records of a history answer belong together
\* ------------------------------------------------------------------------
\* the record of the answered list that was committed last
NewestOf(history) ==
  CHOOSE t \in {history[i] : i \in 1..Len(history)} :
    \A i \in 1..Len(history) : history[i].id <= t.id

\* C32: when a history request is answered with a non-empty record list,
\* also while operations commit on the same account, the reserveAfter and
\* pendingAmountAfter of the most recently committed record of the list
\* equal the reserveBalance and the pendingAmount of the answer.
C32_ConsistentHistory ==
  (http.data.status = "ok" /\ http.data.history # <<>>) =>
    LET t == NewestOf(http.data.history)
    IN /\ t.reserveAfter = http.data.group.reserveBalance
       /\ t.pendingAmountAfter = http.data.group.pendingAmount

\* ------------------------------------------------------------------------
\* C33: no deadlock
\* ------------------------------------------------------------------------
\* the statement p's transaction sent to the store waits for a row lock
Waiting(p) ==
  \/ pc[p] = "upsert" /\ UpsertWaits(p, ctx[p].chatId)
  \/ pc[p] = "save" /\ UpdateWaits(p, group[p].id)

\* p waits while q holds a row lock: with two callers, q is the
\* transaction p waits for
WaitsFor(p, q) == p # q /\ Waiting(p) /\ txGroup[q] # NoRow

\* C33: no state is reachable in which two transactions wait for each
\* other, and under fair scheduling every operation that was invoked
\* eventually commits or fails, on one account or on several.
C33_NoDeadlock ==
  /\ [](\A p, q \in Callers : ~(WaitsFor(p, q) /\ WaitsFor(q, p)))
  /\ \A p \in Callers :
       (pc[p] # "idle") ~>
         (pc[p] = "idle" /\ result[p].status \in {"ok", "error"})

\* an operation waits at its upsert for the row of g1 while the
\* transaction that holds it is about to commit
C33_Witness ==
  \E p, q \in Callers :
    /\ WaitsFor(p, q)
    /\ pc[p] = "upsert" /\ ctx[p].chatId = "g1"
    /\ pc[q] = "commit" /\ ctx[q].chatId = "g1"

\* ------------------------------------------------------------------------
\* C34: what an operation leaves alone
\* ------------------------------------------------------------------------
\* the account with this id is kept, with its id and its chatId
AccountKept(r) ==
  \E n \in groupBalances' : n.id = r.id /\ n.chatId = r.chatId

\* the stored rows and records of the accounts of the other chats are the
\* same after the step
OtherAccountsUnchanged(chatId) ==
  /\ \A r \in groupBalances : r.chatId # chatId => r \in groupBalances'
  /\ \A n \in groupBalances' : n.chatId # chatId => n \in groupBalances
  /\ transactions \subseteq transactions'
  /\ \A t \in transactions' \ transactions :
       \E n \in groupBalances' : n.id = t.groupId /\ n.chatId = chatId

\* C34: addPendingAmount, reducePendingAmount, addReserve and deductReserve
\* never change the stored serviceRate of their account; no step of any
\* operation removes an account or changes its id or chatId; and an
\* operation for one chatId leaves the row (balances, rate, title) and the
\* records of every account with another chatId unchanged.
C34_Frame ==
  [][/\ \A r \in groupBalances : AccountKept(r)
     /\ \A p \in Callers :
          Commits(p) =>
            /\ OtherAccountsUnchanged(ctx[p].chatId)
            /\ ctx[p].kind \in MoneyKinds =>
                 \A r \in groupBalances, n \in groupBalances' :
                   (r.chatId = ctx[p].chatId /\ n.id = r.id) =>
                     n.serviceRate = r.serviceRate
     /\ (\A p \in Callers : ~Commits(p)) =>
          UNCHANGED <<groupBalances, transactions>>]_vars

\* a money operation committed on the account of g1 after the account of
\* g2 had got a debt and a record, which it still has
C34_Witness ==
  \E p \in Callers :
    /\ result[p].status = "ok" /\ result[p].kind \in MoneyKinds
    /\ result[p].chatId = "g1"
    /\ \E r \in groupBalances, t, u \in transactions :
         /\ r.chatId = "g2" /\ r.pendingAmount > 0
         /\ t.groupId = r.id
         /\ u.groupId = result[p].state.id /\ u.id > t.id

====
